---------------------------- MODULE Spec2Model ----------------------------
(***************************************************************************)
(* State-machine model of the GX kernel (host build, hw_generic back ends): *)
(*   - task core      src/kernel/sched/task.c, task.h                      *)
(*   - semaphores     src/kernel/ipc/semaphore.c, semaphore_hw_generic.c   *)
(*   - message queues src/kernel/ipc/queue.c, queue_hw_generic.c           *)
(* Pointers into the static control-block pools are pool slot numbers,     *)
(* NULL is 0.  Every kernel call is one action, except that a call which   *)
(* parks its calling thread on a host primitive is split at that point.    *)
(***************************************************************************)
EXTENDS Integers, Sequences, FiniteSets, TLC

(***************************************************************************)
(* Bounds of the model                                                     *)
(***************************************************************************)
MaxTasks == 3
MaxTaskId == 3

(***************************************************************************)
(* Program constants                                                       *)
(***************************************************************************)
NULL == 0
T_INVALID_ID == 0
T_STATE_FREE == 0
T_STATE_CREATED == 1
T_STATE_READY == 2
T_STATE_RUNNING == 3
T_STATE_SUSPENDED == 4
T_STATE_BLOCKED == 5
T_STATE_DELETED == 6
T_MIN_PRIORITY == 1
T_MAX_PRIORITY == 255
T_DEFAULT_PRIORITY == 128
T_MIN_STACK_SIZE == 512
T_MAX_STACK_SIZE == 65536
MAX_SSTACK == 128000
T_NOPREEMPT == 1
T_PREEMPT == 0
T_TSLICE == 2
T_NOASR == 4
T_ASR == 0
T_NOISR == 256
T_ISR == 0
ULONG_BITS == 64
UINT_BITS == 32

\* Inputs of the task calls.
PrioInputs == {0, 1, 2, 40}
StackInputs == {256, 512, 70000}
ModeInputs == {0, T_NOPREEMPT}
Slots == 1..MaxTasks
TaskIds == 1..MaxTaskId
\* Ready-list indexes some task priority can select; every other element
\* of ready_lists[] stays NULL for ever and is not stored.
Levels == {p \in PrioInputs : p >= T_MIN_PRIORITY /\ p <= T_MAX_PRIORITY}
\* What an undefined bit scan may return: a level, or an index whose list is empty.
CtzUndefined == Levels \cup {0}

VARIABLES
    tcb,              \* pool->tasks[]: the task control blocks
    free_list,        \* pool->free_list
    next_id,          \* pool->next_id
    total_stack_used, \* state->total_stack_used
    ready_lists,      \* sched->ready_lists[], restricted to Levels
    ready_mask,       \* sched->ready_mask, as its set of 1-bits
    current_task,     \* sched->current_task
    last_sel,         \* history: the scheduler's last selection
    t_mode_ret        \* the arguments of the last t_mode call, *old_mode and its result

taskVars == <<tcb, free_list, next_id, total_stack_used, ready_lists,
              ready_mask, current_task, last_sel, t_mode_ret>>

Min(S) == CHOOSE x \in S : \A y \in S : x <= y

(***************************************************************************)
(* The scheduler state a call works on, threaded through its steps.        *)
(***************************************************************************)
Sched == [tcb |-> tcb, rl |-> ready_lists, mask |-> ready_mask,
          cur |-> current_task, sel |-> last_sel]

FreeTcb == [magic |-> FALSE, task_id |-> 0, state |-> T_STATE_FREE, priority |-> 0,
            mode |-> 0, stack_size |-> 0, next |-> NULL, prev |-> NULL]

T_IS_VALID_TCB(tc, t) == t # NULL /\ tc[t].magic

T_PRIORITY_TO_INDEX(pri) == IF pri <= T_MAX_PRIORITY THEN pri ELSE T_MAX_PRIORITY

\* The 1-bits of (1UL << T_PRIORITY_TO_INDEX(pri)).  The shift is defined
\* for an index below the width of unsigned long only; every priority of
\* PrioInputs is below it.
ShiftBits(pri) ==
    LET n == T_PRIORITY_TO_INDEX(pri)
    IN  IF n < ULONG_BITS THEN {n} ELSE {}

T_SET_READY_BIT(mask, pri) == mask \cup ShiftBits(pri)

T_CLEAR_READY_BIT(mask, pri) == mask \ ShiftBits(pri)

RlAt(rl, i) == IF i \in DOMAIN rl THEN rl[i] ELSE NULL

RlSet(rl, i, v) == IF i \in DOMAIN rl THEN [rl EXCEPT ![i] = v] ELSE rl

\* __builtin_ctz takes an unsigned int: the mask is cut to its low 32 bits,
\* and the scan of 0 is undefined (g is what it returns then).
T_FIND_HIGHEST_PRIORITY(mask, g) ==
    LET low == {b \in mask : b < UINT_BITS}
    IN  IF low # {} THEN Min(low) ELSE g

t_scheduler_add_ready(S, t) ==
    IF ~T_IS_VALID_TCB(S.tcb, t) \/ S.tcb[t].state # T_STATE_READY THEN S
    ELSE LET priority == T_PRIORITY_TO_INDEX(S.tcb[t].priority)
             head == RlAt(S.rl, priority)
             tc1 == [S.tcb EXCEPT ![t].next = head, ![t].prev = NULL]
             tc2 == IF head # NULL THEN [tc1 EXCEPT ![head].prev = t] ELSE tc1
         IN  [S EXCEPT !.tcb = tc2,
                       !.rl = RlSet(S.rl, priority, t),
                       !.mask = T_SET_READY_BIT(S.mask, priority)]

t_scheduler_remove_ready(S, t) ==
    IF ~T_IS_VALID_TCB(S.tcb, t) THEN S
    ELSE LET priority == T_PRIORITY_TO_INDEX(S.tcb[t].priority)
             tc0 == S.tcb
             tc1 == IF tc0[t].prev # NULL
                    THEN [tc0 EXCEPT ![tc0[t].prev].next = tc0[t].next] ELSE tc0
             rl1 == IF tc0[t].prev # NULL THEN S.rl
                    ELSE RlSet(S.rl, priority, tc0[t].next)
             tc2 == IF tc1[t].next # NULL
                    THEN [tc1 EXCEPT ![tc1[t].next].prev = tc1[t].prev] ELSE tc1
             tc3 == [tc2 EXCEPT ![t].next = NULL, ![t].prev = NULL]
         IN  [S EXCEPT !.tcb = tc3, !.rl = rl1,
                       !.mask = IF RlAt(rl1, priority) = NULL
                                THEN T_CLEAR_READY_BIT(S.mask, priority)
                                ELSE S.mask]

t_scheduler_get_highest_ready(S, g) ==
    IF S.mask = {} THEN NULL
    ELSE RlAt(S.rl, T_FIND_HIGHEST_PRIORITY(S.mask, g))

\* The head of the lowest-numbered ready list that is not empty (NULL if none).
LowestReadyHead(rl) ==
    LET ne == {i \in DOMAIN rl : rl[i] # NULL}
    IN  IF ne = {} THEN NULL ELSE rl[Min(ne)]

\* t_scheduler_reschedule without the demotion of the task switched out.
t_scheduler_reschedule_keep_running(S, g) ==
    LET current == S.cur
        next == t_scheduler_get_highest_ready(S, g)
        S0 == [S EXCEPT !.sel = [got |-> next, want |-> LowestReadyHead(S.rl)]]
    IN  IF next = NULL THEN S0
        ELSE IF current = next THEN S0
        ELSE LET S2 == t_scheduler_remove_ready(S0, next)
             IN  [S2 EXCEPT !.tcb[next].state = T_STATE_RUNNING, !.cur = next]

t_scheduler_reschedule(S, g) ==
    LET current == S.cur
        next == t_scheduler_get_highest_ready(S, g)
        S0 == [S EXCEPT !.sel = [got |-> next, want |-> LowestReadyHead(S.rl)]]
    IN  IF next = NULL THEN S0
        ELSE IF current = next THEN S0
        ELSE LET S1 == IF current # NULL /\ S0.tcb[current].state = T_STATE_RUNNING
                       THEN t_scheduler_add_ready(
                                [S0 EXCEPT !.tcb[current].state = T_STATE_READY], current)
                       ELSE S0
                 S2 == t_scheduler_remove_ready(S1, next)
             IN  [S2 EXCEPT !.tcb[next].state = T_STATE_RUNNING, !.cur = next]

preemption_enabled == TRUE

t_scheduler_preempt(S, g) ==
    IF preemption_enabled THEN t_scheduler_reschedule(S, g) ELSE S

t_set_state(S, t, new_state) ==
    IF ~T_IS_VALID_TCB(S.tcb, t) THEN S
    ELSE LET old_state == S.tcb[t].state
             S1 == [S EXCEPT !.tcb[t].state = new_state]
         IN  IF new_state = T_STATE_READY
             THEN (IF old_state # T_STATE_READY THEN t_scheduler_add_ready(S1, t) ELSE S1)
             ELSE IF new_state \in {T_STATE_RUNNING, T_STATE_SUSPENDED,
                                    T_STATE_BLOCKED, T_STATE_DELETED}
             THEN (IF old_state = T_STATE_READY
                   THEN t_scheduler_remove_ready(S1, t) ELSE S1)
             ELSE S1

t_validate_priority(priority) ==
    priority >= T_MIN_PRIORITY /\ priority <= T_MAX_PRIORITY

\* The first pool entry with this id and a valid magic (NULL if none).
t_pool_find(tc, task_id) ==
    LET hit == {i \in Slots : tc[i].task_id = task_id /\ tc[i].magic}
    IN  IF task_id = T_INVALID_ID \/ hit = {} THEN NULL ELSE Min(hit)

\* t_pool_free up to and including the relinking into the free list; the
\* caller commits the returned pool, free list and stack total.
t_pool_free(S, t, fl, used) ==
    IF ~T_IS_VALID_TCB(S.tcb, t) THEN [S |-> S, fl |-> fl, used |-> used]
    ELSE LET S1 == t_scheduler_remove_ready(S, t)
             used1 == used - S1.tcb[t].stack_size
         IN  [S |-> [S1 EXCEPT !.tcb[t] = [FreeTcb EXCEPT !.next = fl]],
              fl |-> t, used |-> used1]

Commit(S) ==
    /\ tcb' = S.tcb
    /\ ready_lists' = S.rl
    /\ ready_mask' = S.mask
    /\ current_task' = S.cur
    /\ last_sel' = S.sel

(***************************************************************************)
(* Initial state: t_init_once has run (t_pool_init, t_scheduler_init).     *)
(***************************************************************************)
InitTask ==
    /\ tcb = [i \in Slots |-> [FreeTcb EXCEPT !.next = IF i < MaxTasks THEN i + 1 ELSE NULL]]
    /\ free_list = 1
    /\ next_id = 1
    /\ total_stack_used = 0
    /\ ready_lists = [p \in Levels |-> NULL]
    /\ ready_mask = {}
    /\ current_task = NULL
    /\ last_sel = [got |-> NULL, want |-> NULL]
    /\ t_mode_ret = [mask |-> 0, new_mode |-> 0, old_mode |-> 0, rc |-> "none"]

(***************************************************************************)
(* Task calls                                                              *)
(***************************************************************************)
t_create(prio, stack) ==
    /\ next_id <= MaxTaskId
    /\ IF stack < T_MIN_STACK_SIZE \/ ~t_validate_priority(prio) \/ free_list = NULL
       THEN UNCHANGED taskVars            \* ERR_TINYSTK, ERR_PRIOR, ERR_NOTCB
       ELSE LET t == free_list
                fl1 == tcb[t].next
                S1 == [Sched EXCEPT !.tcb[t] =
                         [FreeTcb EXCEPT !.magic = TRUE, !.task_id = next_id,
                                         !.state = T_STATE_CREATED, !.priority = prio]]
                fits == stack <= T_MAX_STACK_SIZE
                        /\ total_stack_used + stack <= MAX_SSTACK
            IN  /\ next_id' = next_id + 1
                /\ UNCHANGED t_mode_ret
                /\ IF fits
                   THEN /\ Commit([S1 EXCEPT !.tcb[t].stack_size = stack])
                        /\ free_list' = fl1
                        /\ total_stack_used' = total_stack_used + stack
                   ELSE LET F == t_pool_free(S1, t, fl1, total_stack_used)
                        IN  /\ Commit(F.S)
                            /\ free_list' = F.fl
                            /\ total_stack_used' = F.used

t_delete(tid, g) ==
    LET t == t_pool_find(tcb, tid)
    IN  IF t = NULL THEN UNCHANGED taskVars                       \* ERR_OBJID
        ELSE LET S1 == t_set_state(Sched, t, T_STATE_DELETED)
                 S2 == IF t = S1.cur THEN t_scheduler_reschedule(S1, g) ELSE S1
                 F == t_pool_free(S2, t, free_list, total_stack_used)
             IN  /\ Commit(F.S)
                 /\ free_list' = F.fl
                 /\ total_stack_used' = F.used
                 /\ UNCHANGED <<next_id, t_mode_ret>>

t_start(tid, mode, ctxOk, g) ==
    LET t == t_pool_find(tcb, tid)
    IN  IF t = NULL \/ tcb[t].state # T_STATE_CREATED \/ ~ctxOk
        THEN UNCHANGED taskVars          \* ERR_OBJID, ERR_ACTIVE, context error
        ELSE LET S1 == [Sched EXCEPT !.tcb[t].mode = mode]
                 S2 == t_set_state(S1, t, T_STATE_READY)
             IN  /\ Commit(t_scheduler_preempt(S2, g))
                 /\ UNCHANGED <<free_list, next_id, total_stack_used, t_mode_ret>>

t_suspend(tid, g) ==
    LET t == t_pool_find(tcb, tid)
    IN  IF t = NULL \/ tcb[t].state = T_STATE_SUSPENDED
        THEN UNCHANGED taskVars                         \* ERR_OBJID, ERR_SUSP
        ELSE LET S1 == t_set_state(Sched, t, T_STATE_SUSPENDED)
             IN  /\ Commit(IF t = S1.cur THEN t_scheduler_reschedule(S1, g) ELSE S1)
                 /\ UNCHANGED <<free_list, next_id, total_stack_used, t_mode_ret>>

t_resume(tid, g) ==
    LET t == t_pool_find(tcb, tid)
    IN  IF t = NULL \/ tcb[t].state # T_STATE_SUSPENDED
        THEN UNCHANGED taskVars                      \* ERR_OBJID, ERR_NOTSUSP
        ELSE /\ Commit(t_scheduler_preempt(t_set_state(Sched, t, T_STATE_READY), g))
             /\ UNCHANGED <<free_list, next_id, total_stack_used, t_mode_ret>>

t_setpri(tid, newprio, g) ==
    LET t == t_pool_find(tcb, tid)
    IN  IF t = NULL \/ ~t_validate_priority(newprio)
        THEN UNCHANGED taskVars                       \* ERR_OBJID, ERR_SETPRI
        ELSE LET S1 == IF tcb[t].state = T_STATE_READY
                       THEN t_scheduler_add_ready(
                              [t_scheduler_remove_ready(Sched, t)
                                  EXCEPT !.tcb[t].priority = newprio], t)
                       ELSE [Sched EXCEPT !.tcb[t].priority = newprio]
             IN  /\ Commit(t_scheduler_preempt(S1, g))
                 /\ UNCHANGED <<free_list, next_id, total_stack_used, t_mode_ret>>

t_restart(tid, ctxOk) ==
    LET t == t_pool_find(tcb, tid)
    IN  IF t = NULL \/ tcb[t].state = T_STATE_CREATED \/ ~ctxOk
        THEN UNCHANGED taskVars         \* ERR_OBJID, ERR_NACTIVE, context error
        ELSE /\ Commit(t_set_state(Sched, t, T_STATE_READY))
             /\ UNCHANGED <<free_list, next_id, total_stack_used, t_mode_ret>>

\* The bitwise operators of C on non-negative values.
RECURSIVE BitAnd(_, _)
BitAnd(a, b) ==
    IF a = 0 \/ b = 0 THEN 0
    ELSE (a % 2) * (b % 2) + 2 * BitAnd(a \div 2, b \div 2)

BitOr(a, b) == a + b - BitAnd(a, b)

T_MODE_SET(mode, mask) == BitOr(mode, mask)
T_MODE_CLEAR(mode, mask) == mode - BitAnd(mode, mask)

\* t_mode, called from the thread of whatever task is current.  *old_mode
\* is written only when a task is current.
t_mode(mask, new_mode) ==
    IF current_task = NULL
    THEN /\ t_mode_ret' = [mask |-> mask, new_mode |-> new_mode,
                           old_mode |-> t_mode_ret.old_mode, rc |-> "ERR_NOTACTIVE"]
         /\ UNCHANGED <<tcb, free_list, next_id, total_stack_used, ready_lists,
                        ready_mask, current_task, last_sel>>
    ELSE LET m0 == tcb[current_task].mode
             m1 == IF BitAnd(mask, T_PREEMPT) # 0
                   THEN IF BitAnd(new_mode, T_PREEMPT) # 0
                        THEN T_MODE_CLEAR(m0, T_NOPREEMPT) ELSE T_MODE_SET(m0, T_NOPREEMPT)
                   ELSE m0
             m2 == IF BitAnd(mask, T_TSLICE) # 0
                   THEN IF BitAnd(new_mode, T_TSLICE) # 0
                        THEN T_MODE_SET(m1, T_TSLICE) ELSE T_MODE_CLEAR(m1, T_TSLICE)
                   ELSE m1
             m3 == IF BitAnd(mask, T_ASR) # 0
                   THEN IF BitAnd(new_mode, T_ASR) # 0
                        THEN T_MODE_SET(m2, T_ASR) ELSE T_MODE_CLEAR(m2, T_ASR)
                   ELSE m2
             m4 == IF BitAnd(mask, T_ISR) # 0
                   THEN IF BitAnd(new_mode, T_ISR) # 0
                        THEN T_MODE_SET(m3, T_ISR) ELSE T_MODE_CLEAR(m3, T_ISR)
                   ELSE m3
         IN  /\ tcb' = [tcb EXCEPT ![current_task].mode = m4]
             /\ t_mode_ret' = [mask |-> mask, new_mode |-> new_mode,
                               old_mode |-> m0, rc |-> "OK"]
             /\ UNCHANGED <<free_list, next_id, total_stack_used, ready_lists,
                            ready_mask, current_task, last_sel>>

(***************************************************************************)
(* Semaphores: semaphore.c over the host back end semaphore_hw_generic.c.  *)
(* One control block of the pool is modelled.  A caller is the thread of a *)
(* task, named by the task's pool slot.                                    *)
(***************************************************************************)
MaxSmV == 3

SM_MAX_COUNT == 2147483647
SM_DEFAULT_MAX == 8
SM_FIFO == 0
SM_PRIOR == 2
SM_NOWAIT == 1
SM_WAIT == 0
\* 0xFFFFFFFF, as the 32-bit two's complement number it is.
SM_INFINITE_TIMEOUT == -1

Threads == Slots
CountInputs == {0, 1, 2}
SmCreateFlags == {SM_FIFO, SM_PRIOR}
SmWaitFlags == {SM_WAIT, SM_NOWAIT}
TimeoutInputs == {0, SM_INFINITE_TIMEOUT}

VARIABLES
    scb,      \* the semaphore control block, with its host context
    thr,      \* per thread: where it stands in a blocking call, its last result
    granted,  \* history: owners of the wait nodes sm_v has dequeued
    p_ok,     \* history: number of sm_p calls that returned 0
    v_cnt,    \* history: number of sm_v calls that returned 0
    sm_v_ret  \* the value the last sm_v call returned

semVars == <<scb, thr, granted, p_ok, v_cnt, sm_v_ret>>

FlagSet(flags, bit) == (flags \div bit) % 2 = 1

FreeScb == [active |-> FALSE, current_count |-> 0, initial_count |-> 0,
            maximum_count |-> 0, wait_mode |-> SM_FIFO, wq |-> <<>>,
            wait_count |-> 0, posix |-> 0, ctx_count |-> 0, ctx_max |-> 0]

IdleThread == [pc |-> "idle", rc |-> "none", timeout |-> 0]

SM_IS_VALID_COUNT(cnt) == cnt >= 0 /\ cnt <= SM_MAX_COUNT

sm_get_current_task_id == 0

sm_get_current_priority == 128

RemoveAt(q, i) == [j \in 1..(Len(q) - 1) |-> IF j < i THEN q[j] ELSE q[j + 1]]

InsertAt(q, i, x) ==
    [j \in 1..(Len(q) + 1) |-> IF j < i THEN q[j] ELSE IF j = i THEN x ELSE q[j - 1]]

\* owner is history only: the thread on whose behalf the node was queued.
sm_wait_queue_add(s, task_id, priority, owner) ==
    LET node == [task_id |-> task_id, priority |-> priority, owner |-> owner]
        later == {i \in 1..Len(s.wq) : s.wq[i].priority > priority}
        pos == IF s.wait_mode = SM_PRIOR /\ later # {} THEN Min(later)
               ELSE Len(s.wq) + 1
    IN  [s EXCEPT !.wq = InsertAt(s.wq, pos, node), !.wait_count = s.wait_count + 1]

sm_wait_queue_remove(s, task_id) ==
    LET hit == {i \in 1..Len(s.wq) : s.wq[i].task_id = task_id}
    IN  IF hit = {} THEN s
        ELSE [s EXCEPT !.wq = RemoveAt(s.wq, Min(hit)), !.wait_count = s.wait_count - 1]

sm_wait_queue_get_next(s) ==
    IF s.wq = <<>> THEN s
    ELSE [s EXCEPT !.wq = Tail(s.wq), !.wait_count = s.wait_count - 1]

sm_hw_generic_create_semaphore(s, initial_count, max_count) ==
    [s EXCEPT !.posix = initial_count, !.ctx_count = initial_count, !.ctx_max = max_count]

sm_hw_generic_signal_semaphore(s) ==
    IF s.ctx_count >= s.ctx_max THEN s
    ELSE [s EXCEPT !.posix = s.posix + 1, !.ctx_count = s.ctx_count + 1]

\* sem_wait / sem_timedwait returning 0 on the host semaphore.
sm_hw_generic_wait_taken(s) ==
    [s EXCEPT !.posix = s.posix - 1,
              !.ctx_count = IF s.ctx_count > 0 THEN s.ctx_count - 1 ELSE s.ctx_count]

sm_create_scb(count, flags) ==
    sm_hw_generic_create_semaphore(
        [FreeScb EXCEPT !.active = TRUE, !.current_count = count, !.initial_count = count,
                        !.maximum_count = IF FlagSet(flags, SM_PRIOR)
                                          THEN SM_MAX_COUNT ELSE SM_DEFAULT_MAX,
                        !.wait_mode = IF FlagSet(flags, SM_PRIOR) THEN SM_PRIOR ELSE SM_FIFO],
        count,
        IF FlagSet(flags, SM_PRIOR) THEN SM_MAX_COUNT ELSE SM_DEFAULT_MAX)

\* sm_p up to the point where it returns or parks the caller on the host
\* semaphore: [s: the control block, rc: the result, or "wait" when parked].
sm_p_enter(s, flags, owner) ==
    IF ~s.active THEN [s |-> s, rc |-> "ERR_OBJID"]
    ELSE IF s.current_count > 0
    THEN [s |-> [s EXCEPT !.current_count = s.current_count - 1], rc |-> "OK"]
    ELSE IF FlagSet(flags, SM_NOWAIT) THEN [s |-> s, rc |-> "ERR_NOSEM"]
    ELSE [s |-> sm_wait_queue_add(s, sm_get_current_task_id, sm_get_current_priority, owner),
          rc |-> "wait"]

\* sm_p after the host wait returned 0: the caller's wait node stays queued.
sm_p_wake(s) == sm_hw_generic_wait_taken(s)

\* sm_p after the host wait timed out.
sm_p_timeout(s) == sm_wait_queue_remove(s, sm_get_current_task_id)

\* sm_v: [s: the control block, rc: the result, woke: history, the owner of
\* the node taken off the wait list, or {} when there was none].
sm_v_scb(s) ==
    IF ~s.active THEN [s |-> s, rc |-> "ERR_OBJID", woke |-> {}]
    ELSE IF s.wait_count > 0
    THEN [s |-> sm_hw_generic_signal_semaphore(sm_wait_queue_get_next(s)), rc |-> "OK",
          woke |-> IF s.wq = <<>> THEN {} ELSE {s.wq[1].owner}]
    ELSE IF s.current_count >= s.maximum_count
    THEN [s |-> s, rc |-> "ERR_SEMFULL", woke |-> {}]
    ELSE [s |-> [s EXCEPT !.current_count = s.current_count + 1], rc |-> "OK", woke |-> {}]

InitSem ==
    /\ scb = FreeScb
    /\ thr = [t \in Threads |-> IdleThread]
    /\ granted = {}
    /\ p_ok = 0
    /\ v_cnt = 0
    /\ sm_v_ret = "none"

sm_create(count, flags) ==
    /\ ~scb.active
    /\ SM_IS_VALID_COUNT(count)
    /\ scb' = sm_create_scb(count, flags)
    /\ UNCHANGED <<thr, granted, p_ok, v_cnt, sm_v_ret>>

sm_p(t, flags, timeout) ==
    /\ thr[t].pc = "idle"
    /\ LET r == sm_p_enter(scb, flags, t)
       IN  /\ scb' = r.s
           /\ thr' = [thr EXCEPT ![t] = IF r.rc = "wait"
                                        THEN [pc |-> "sm_wait", rc |-> "none", timeout |-> timeout]
                                        ELSE [IdleThread EXCEPT !.rc = r.rc]]
           /\ p_ok' = IF r.rc = "OK" THEN p_ok + 1 ELSE p_ok
    /\ UNCHANGED <<granted, v_cnt, sm_v_ret>>

\* sm_p from its entry through the availability test.  SM_ENTER_CRITICAL is
\* empty, so a caller that found the count at 0 has not yet queued its wait
\* node when other threads' calls run.
sm_p_check(t, flags, timeout) ==
    /\ thr[t].pc = "idle"
    /\ LET r == sm_p_enter(scb, flags, t)
       IN  /\ scb' = IF r.rc = "wait" THEN scb ELSE r.s
           /\ thr' = [thr EXCEPT ![t] = IF r.rc = "wait"
                                        THEN [pc |-> "sm_checked", rc |-> "none", timeout |-> timeout]
                                        ELSE [IdleThread EXCEPT !.rc = r.rc]]
           /\ p_ok' = IF r.rc = "OK" THEN p_ok + 1 ELSE p_ok
    /\ UNCHANGED <<granted, v_cnt, sm_v_ret>>

\* sm_p from sm_wait_queue_add to the wait on the host semaphore.
sm_p_queue(t) ==
    /\ thr[t].pc = "sm_checked"
    /\ scb' = sm_wait_queue_add(scb, sm_get_current_task_id, sm_get_current_priority, t)
    /\ thr' = [thr EXCEPT ![t].pc = "sm_wait"]
    /\ UNCHANGED <<granted, p_ok, v_cnt, sm_v_ret>>

\* The host semaphore lets the parked caller through: its sm_p returns 0.
sm_p_return(t) ==
    /\ thr[t].pc = "sm_wait"
    /\ scb.posix > 0
    /\ scb' = sm_p_wake(scb)
    /\ thr' = [thr EXCEPT ![t] = [IdleThread EXCEPT !.rc = "OK"]]
    /\ granted' = granted \ {t}
    /\ p_ok' = p_ok + 1
    /\ UNCHANGED <<v_cnt, sm_v_ret>>

\* sem_timedwait gives up on a host semaphore that stayed at 0.
sm_p_timedout(t) ==
    /\ thr[t].pc = "sm_wait"
    /\ thr[t].timeout # SM_INFINITE_TIMEOUT
    /\ scb.posix = 0
    /\ scb' = sm_p_timeout(scb)
    /\ thr' = [thr EXCEPT ![t] = [IdleThread EXCEPT !.rc = "ERR_TIMEOUT"]]
    /\ UNCHANGED <<granted, p_ok, v_cnt, sm_v_ret>>

sm_v ==
    /\ v_cnt < MaxSmV
    /\ LET r == sm_v_scb(scb)
       IN  /\ scb' = r.s
           /\ granted' = granted \cup r.woke
           /\ v_cnt' = IF r.rc = "OK" THEN v_cnt + 1 ELSE v_cnt
           /\ sm_v_ret' = r.rc
    /\ UNCHANGED <<thr, p_ok>>

\* The threads that block on an object that is then deleted.
MaxDeleteWaiters == 1

\* sm_delete pops every wait node without resuming its task (the t_resume is
\* a comment) and sm_pool_free destroys and frees the host semaphore and
\* clears the block: the threads inside sem_wait are left where they are.
sm_delete ==
    /\ scb.active
    /\ scb' = FreeScb
    /\ UNCHANGED <<thr, granted, p_ok, v_cnt, sm_v_ret>>

\* A thread parked on a destroyed host semaphore: POSIX leaves the effect
\* undefined.  It may stay blocked, or sem_wait may return, with 0 or with
\* an error other than ETIMEDOUT; sm_p returns 0 in both cases.
sm_p_destroyed(t) ==
    /\ thr[t].pc = "sm_wait"
    /\ ~scb.active
    /\ thr' = [thr EXCEPT ![t] = [IdleThread EXCEPT !.rc = "OK"]]
    /\ UNCHANGED <<scb, granted, p_ok, v_cnt, sm_v_ret>>

(***************************************************************************)
(* Message queues: queue.c over the host back end queue_hw_generic.c.      *)
(* One queue of the pool is modelled, with the semaphore q_sync_create     *)
(* makes for it.  A message is one number standing for its four words; the *)
(* n-th accepted message is n.  q_send runs under the back end's mutex,    *)
(* which q_receive and q_urgent never take: its enqueue is two steps, the  *)
(* index advance and the copy into the slot.  Statistics are left out.     *)
(***************************************************************************)
MaxMsgs == 4
MaxReceivers == 2

Q_MIN_COUNT == 4
Q_MAX_COUNT == 1024
Q_MAX_BUFFERS == 2048
Q_NOWAIT == 1
Q_WAIT == 0

Receivers == 1..MaxReceivers
QCountInputs == {2, 4}
QWaitFlags == {Q_WAIT, Q_NOWAIT}

VARIABLES
    qcb,    \* the queue control block: ring indexes and message slots
    qsem,   \* the queue's semaphore (qcb->semid), a control block as scb
    qthr,   \* per receiving thread: where it stands in q_receive, its result
    snd,    \* the sending thread: where it stands in q_send, its result
    sent,   \* history: messages accepted by q_send, in order
    urg,    \* history: messages accepted by q_urgent, in order
    rcvd,   \* history: messages q_receive returned with result 0, in order
    owed,   \* history: per receiver, the message sent while it was parked
    bufpool,      \* the buffer arena's bookkeeping (Q_BUFFER_POOL)
    q_create_ret, \* the last q_create: its count argument and its result
    bcast   \* q_broadcast: messages accepted (history) and the last *count

queueVars == <<qcb, qsem, qthr, snd, sent, urg, rcvd, owed, bufpool, q_create_ret, bcast>>

FreeQcb == [active |-> FALSE, count |-> 0, start |-> 0, end |-> 0,
            nextin |-> 0, nextout |-> 0, buf |-> <<>>, current_messages |-> 0]

IdleReceiver == [pc |-> "idle", rc |-> "none", msg |-> 0, timeout |-> 0]

\* op is the call the result rc belongs to.
IdleSender == [pc |-> "idle", op |-> "none", rc |-> "none", msg |-> 0, target |-> 0]

Q_IS_VALID_COUNT(count) == count >= Q_MIN_COUNT /\ count <= Q_MAX_COUNT

Q_BUFFER_FULL(q) ==
    (q.nextin + 1 = q.nextout) \/ (q.nextin = q.end /\ q.nextout = q.start)

Q_BUFFER_EMPTY(q) == q.nextin = q.nextout

Q_ADVANCE_INDEX(q, idx) == IF idx = q.end THEN q.start ELSE idx + 1

\* current_messages is a ULONG: a decrement of 0 gives 0xFFFFFFFF, written -1
\* as every value of 32 bits from 2^31 on is here.
\* q_message_enqueue of an urgent message: [q, rc].
q_message_enqueue_urgent(q, msg) ==
    IF Q_BUFFER_FULL(q) THEN [q |-> q, rc |-> "ERR_QFULL"]
    ELSE LET target_index == IF q.nextout = q.start THEN q.end ELSE q.nextout - 1
         IN  [q |-> [q EXCEPT !.nextout = target_index, !.buf[target_index] = msg,
                              !.current_messages = q.current_messages + 1],
              rc |-> "OK"]

\* q_message_dequeue: [q, rc, msg]; the slot is read as it stands.
q_message_dequeue(q) ==
    IF Q_BUFFER_EMPTY(q) THEN [q |-> q, rc |-> "ERR_NOMSG", msg |-> 0]
    ELSE [q |-> [q EXCEPT !.nextout = Q_ADVANCE_INDEX(q, q.nextout),
                          !.current_messages = q.current_messages - 1],
          rc |-> "OK", msg |-> q.buf[q.nextout]]

\* The next message handed to q_send, q_urgent or q_broadcast.
NextMsg == Len(sent) + Len(urg) + Len(bcast.msgs) + 1

q_buffer_available(pool) == pool.total_buffers - pool.next_available

\* q_buffer_alloc once q_create has found the space available.
q_buffer_alloc(pool, count) ==
    [pool EXCEPT !.next_available = pool.next_available + count,
                 !.buffers_allocated = pool.buffers_allocated + count]

\* q_buffer_free: next_available is left where it is.
q_buffer_free(pool, count) ==
    [pool EXCEPT !.buffers_allocated = pool.buffers_allocated - count]

InitQueue ==
    /\ qcb = FreeQcb
    /\ qsem = FreeScb
    /\ qthr = [r \in Receivers |-> IdleReceiver]
    /\ snd = IdleSender
    /\ sent = <<>>
    /\ urg = <<>>
    /\ rcvd = <<>>
    /\ owed = [r \in Receivers |-> 0]
    /\ bufpool = [total_buffers |-> Q_MAX_BUFFERS, next_available |-> 0,
                  buffers_allocated |-> 0]
    /\ q_create_ret = [count |-> 0, rc |-> "none"]
    /\ bcast = [msgs |-> <<>>, count |-> 0]

\* The buffer arena is an array of zeroed static storage; a queue gets the
\* `count` slots from next_available on (q_buffer_alloc), slots no queue
\* had before.  One control block of the pool is modelled: the call is
\* made when that block is free.
q_create(count) ==
    /\ ~qcb.active
    /\ IF ~Q_IS_VALID_COUNT(count)
       THEN q_create_ret' = [count |-> count, rc |-> "ERR_BADPARAM"] /\ UNCHANGED <<qcb, qsem, bufpool>>
       ELSE IF q_buffer_available(bufpool) < count
       THEN q_create_ret' = [count |-> count, rc |-> "ERR_NOMGB"] /\ UNCHANGED <<qcb, qsem, bufpool>>
       ELSE LET buffer_start == bufpool.next_available
            IN  /\ bufpool' = q_buffer_alloc(bufpool, count)
                /\ qcb' = [active |-> TRUE, count |-> count, start |-> buffer_start,
                           end |-> buffer_start + count - 1,
                           nextin |-> buffer_start, nextout |-> buffer_start,
                           buf |-> [i \in buffer_start..(buffer_start + count - 1) |-> 0],
                           current_messages |-> 0]
                /\ qsem' = sm_create_scb(0, SM_FIFO)
                /\ q_create_ret' = [count |-> count, rc |-> "OK"]
    /\ UNCHANGED <<qthr, snd, sent, urg, rcvd, owed, bcast>>

\* q_send up to the index advance of q_message_enqueue.
q_send_begin ==
    /\ snd.pc = "idle"
    /\ qcb.active
    /\ NextMsg <= MaxMsgs
    /\ IF Q_BUFFER_FULL(qcb)
       THEN /\ snd' = [IdleSender EXCEPT !.op = "q_send", !.rc = "ERR_QFULL"]
            /\ qcb' = qcb
       ELSE /\ snd' = [pc |-> "copy", op |-> "q_send", rc |-> "none",
                            msg |-> NextMsg, target |-> qcb.nextin]
            /\ qcb' = [qcb EXCEPT !.nextin = Q_ADVANCE_INDEX(qcb, qcb.nextin)]
    /\ UNCHANGED <<qsem, qthr, sent, urg, rcvd, owed, bufpool, q_create_ret, bcast>>

\* q_send from the copy into the slot to its return; the back end signals
\* its condition variable, not the queue's semaphore.
q_send_copy ==
    /\ snd.pc = "copy"
    /\ qcb' = [qcb EXCEPT !.buf[snd.target] = snd.msg,
                           !.current_messages = qcb.current_messages + 1]
    /\ snd' = [IdleSender EXCEPT !.op = "q_send", !.rc = "OK"]
    /\ sent' = Append(sent, snd.msg)
    /\ owed' = [r \in Receivers |->
                  IF /\ owed[r] = 0
                     /\ qthr[r].pc = "q_wait"
                     /\ qthr[r].timeout = SM_INFINITE_TIMEOUT
                     /\ \A o \in Receivers \ {r} : qthr[o].pc # "q_wait"
                  THEN snd.msg ELSE owed[r]]
    /\ UNCHANGED <<qsem, qthr, urg, rcvd, bufpool, q_create_ret, bcast>>

q_urgent ==
    /\ snd.pc = "idle"
    /\ qcb.active
    /\ NextMsg <= MaxMsgs
    /\ LET e == q_message_enqueue_urgent(qcb, NextMsg)
       IN  /\ qcb' = e.q
           /\ snd' = [IdleSender EXCEPT !.op = "q_urgent", !.rc = e.rc]
           /\ qsem' = IF e.rc = "OK" THEN sm_v_scb(qsem).s ELSE qsem
           /\ urg' = IF e.rc = "OK" THEN Append(urg, NextMsg) ELSE urg
    /\ UNCHANGED <<qthr, sent, rcvd, owed, bufpool, q_create_ret, bcast>>

\* The back end counts the threads inside q_hw_wait_condition; q_receive
\* waits on the queue's semaphore and never enters it.
q_hw_active_waits == 0

\* q_broadcast, as q_send under the back end's mutex, up to the index
\* advance of q_message_enqueue.
q_broadcast_begin ==
    /\ snd.pc = "idle"
    /\ qcb.active
    /\ NextMsg <= MaxMsgs
    /\ IF Q_BUFFER_FULL(qcb)
       THEN /\ snd' = [IdleSender EXCEPT !.op = "q_broadcast", !.rc = "ERR_QFULL"]
            /\ qcb' = qcb
            /\ bcast' = [bcast EXCEPT !.count = 0]
       ELSE /\ snd' = [pc |-> "bcopy", op |-> "q_broadcast", rc |-> "none",
                            msg |-> NextMsg, target |-> qcb.nextin]
            /\ qcb' = [qcb EXCEPT !.nextin = Q_ADVANCE_INDEX(qcb, qcb.nextin)]
            /\ bcast' = bcast
    /\ UNCHANGED <<qsem, qthr, sent, urg, rcvd, owed, bufpool, q_create_ret>>

\* q_broadcast from the copy into the slot to its return: *count is set
\* from active_waits and the back end's condition variable is signaled.
q_broadcast_copy ==
    /\ snd.pc = "bcopy"
    /\ qcb' = [qcb EXCEPT !.buf[snd.target] = snd.msg,
                           !.current_messages = qcb.current_messages + 1]
    /\ snd' = [IdleSender EXCEPT !.op = "q_broadcast", !.rc = "OK"]
    /\ bcast' = [msgs |-> Append(bcast.msgs, snd.msg),
                 count |-> IF q_hw_active_waits > 0 THEN 1 ELSE 0]
    /\ UNCHANGED <<qsem, qthr, sent, urg, rcvd, owed, bufpool, q_create_ret>>

\* The end of every q_receive: q_message_dequeue and the return.
ReceiveDequeue(r) ==
    LET d == q_message_dequeue(qcb)
    IN  /\ qcb' = d.q
        /\ qthr' = [qthr EXCEPT ![r] = [IdleReceiver EXCEPT !.rc = d.rc, !.msg = d.msg]]
        /\ rcvd' = IF d.rc = "OK" THEN Append(rcvd, d.msg) ELSE rcvd

q_receive(r, flags, timeout) ==
    /\ qthr[r].pc = "idle"
    /\ qcb.active
    /\ IF ~Q_BUFFER_EMPTY(qcb) THEN ReceiveDequeue(r) /\ qsem' = qsem
       ELSE IF FlagSet(flags, Q_NOWAIT)
       THEN /\ qthr' = [qthr EXCEPT ![r] = [IdleReceiver EXCEPT !.rc = "ERR_NOMSG"]]
            /\ UNCHANGED <<qcb, qsem, rcvd>>
       ELSE LET w == sm_p_enter(qsem, SM_WAIT, r)
            IN  /\ qsem' = w.s
                /\ IF w.rc = "wait"
                   THEN /\ qthr' = [qthr EXCEPT ![r] = [pc |-> "q_wait", rc |-> "none",
                                                         msg |-> 0, timeout |-> timeout]]
                        /\ UNCHANGED <<qcb, rcvd>>
                   ELSE ReceiveDequeue(r)
    /\ UNCHANGED <<snd, sent, urg, owed, bufpool, q_create_ret, bcast>>

\* The queue's host semaphore lets the parked receiver through.
q_receive_wake(r) ==
    /\ qthr[r].pc = "q_wait"
    /\ qsem.posix > 0
    /\ qsem' = sm_p_wake(qsem)
    /\ ReceiveDequeue(r)
    /\ UNCHANGED <<snd, sent, urg, owed, bufpool, q_create_ret, bcast>>

\* The parked receiver's timeout runs out on a host semaphore still at 0.
q_receive_timedout(r) ==
    /\ qthr[r].pc = "q_wait"
    /\ qthr[r].timeout # SM_INFINITE_TIMEOUT
    /\ qsem.posix = 0
    /\ qsem' = sm_p_timeout(qsem)
    /\ qthr' = [qthr EXCEPT ![r] = [IdleReceiver EXCEPT !.rc = "ERR_TIMEOUT"]]
    /\ UNCHANGED <<qcb, snd, sent, urg, rcvd, owed, bufpool, q_create_ret, bcast>>

\* q_delete: q_pool_free calls q_buffer_free, deletes the queue's semaphore
\* (q_sync_delete calls sm_delete) and clears the block; nothing is done for
\* parked receivers.
q_delete ==
    /\ qcb.active
    /\ bufpool' = IF qcb.start # qcb.end THEN q_buffer_free(bufpool, qcb.count) ELSE bufpool
    /\ qcb' = FreeQcb
    /\ qsem' = FreeScb
    /\ UNCHANGED <<qthr, snd, sent, urg, rcvd, owed, q_create_ret, bcast>>

\* A receiver parked on the destroyed semaphore of a deleted queue, when the
\* host lets it out of sem_wait: sm_p returns 0 and q_receive goes on to
\* q_message_dequeue on the cleared block.
q_receive_destroyed(r) ==
    /\ qthr[r].pc = "q_wait"
    /\ ~qcb.active
    /\ ReceiveDequeue(r)
    /\ UNCHANGED <<qsem, snd, sent, urg, owed, bufpool, q_create_ret, bcast>>

(***************************************************************************)
(* Events: src/kernel/ipc/event.c over the host back end                   *)
(* event_hw_generic.c.  An event mask is modelled as the set of its bit    *)
(* numbers: 0x03 is {0, 1}, 0x0C is {2, 3}, 0x0F is {0, 1, 2, 3}; & is     *)
(* \cap, | is \cup and & ~ is \.  ev_get_current_task_id() returns 0 for   *)
(* every caller, so every ev_receive works on event block 0.  The          *)
(* critical-section macros are empty: ev_send is two steps, up to the      *)
(* signal of the host event object and from there to its return, and the   *)
(* woken thread may run in between.                                        *)
(***************************************************************************)
EV_STATE_FREE == 0
EV_STATE_WAITING == 1
EV_STATE_SIGNALED == 2
EV_NOWAIT == 1
EV_ANY == 2
EV_ALL == 0
EV_INFINITE_TIMEOUT == -1    \* 0xFFFFFFFF, as a 32-bit two's complement value
MAX_TASK == 64

\* Bound: the threads that call ev_receive, and the event blocks modelled
\* (block 0 and the blocks of the task ids 1..MaxEvTasks).
MaxEvTasks == 1
EvTasks == 1..MaxEvTasks

VARIABLES
    ecb,        \* ev_global_state.pool.event_blocks[0..MaxEvTasks]
    evthr,      \* per calling thread: its position in ev_receive, its arguments and result
    ev_ctx,     \* per thread: the signaled flag of the EV_GENERIC_CONTEXT its ev_start_wait made
    evs         \* the sending thread: its position in ev_send

eventVars == <<ecb, evthr, ev_ctx, evs>>

\* hw_context names the thread whose ev_start_wait made the current context.
\* due is history: pending & waiting at the last signal of the block.
FreeEcb ==
    [state |-> EV_STATE_FREE, pending_events |-> {}, waiting_events |-> {},
     received_events |-> {}, wait_condition |-> EV_ALL, hw_context |-> NULL,
     due |-> {}]

IdleEvThread ==
    [pc |-> "idle", rc |-> "none", out |-> {}, events |-> {}, flags |-> 0,
     timeout |-> 0, due |-> {}]

ev_get_current_task_id == 0

ev_check_conditions(e) ==
    /\ e.state = EV_STATE_WAITING
    /\ IF e.wait_condition = EV_ALL
       THEN (e.pending_events \cap e.waiting_events) = e.waiting_events
       ELSE (e.pending_events \cap e.waiting_events) # {}

ev_clear_received(e, events_to_clear) ==
    [e EXCEPT !.pending_events = @ \ events_to_clear,
              !.received_events = events_to_clear]

InitEvent ==
    /\ ecb = [i \in 0..MaxEvTasks |-> FreeEcb]
    /\ evthr = [t \in EvTasks |-> IdleEvThread]
    /\ ev_ctx = [t \in EvTasks |-> FALSE]
    /\ evs = [pc |-> "idle", tid |-> 0]

\* ev_receive up to its return or to the wait on the host event object.
ev_receive(t, events, flags, timeout) ==
    LET id == ev_get_current_task_id
        call == [IdleEvThread EXCEPT !.events = events, !.flags = flags, !.timeout = timeout]
        e0 == [ecb[id] EXCEPT !.waiting_events = events,
                              !.wait_condition = IF FlagSet(flags, EV_ANY) THEN EV_ANY ELSE EV_ALL]
        got == e0.pending_events \cap events
    IN  /\ evthr[t].pc = "idle"
        /\ IF events = {}
           THEN /\ evthr' = [evthr EXCEPT ![t] = [call EXCEPT !.rc = "ERR_BADPARAM"]]
                /\ UNCHANGED <<ecb, ev_ctx>>
           ELSE IF ev_check_conditions(e0)
           THEN /\ ecb' = [ecb EXCEPT ![id] =
                              IF e0.wait_condition = EV_ALL
                              THEN ev_clear_received(e0, events)
                              ELSE ev_clear_received(e0, got)]
                /\ evthr' = [evthr EXCEPT ![t] = [call EXCEPT !.rc = "OK", !.out = got]]
                /\ UNCHANGED ev_ctx
           ELSE IF FlagSet(flags, EV_NOWAIT)
           THEN /\ ecb' = [ecb EXCEPT ![id] = e0]
                /\ evthr' = [evthr EXCEPT ![t] = [call EXCEPT !.rc = "ERR_NOEVS"]]
                /\ UNCHANGED ev_ctx
           ELSE \* ev_start_wait, then the thread enters ev_hw_generic_wait_event
                /\ ecb' = [ecb EXCEPT ![id] = [e0 EXCEPT !.state = EV_STATE_WAITING,
                                                          !.hw_context = t]]
                /\ ev_ctx' = [ev_ctx EXCEPT ![t] = FALSE]
                /\ evthr' = [evthr EXCEPT ![t] = [call EXCEPT !.pc = "ev_wait"]]
        /\ UNCHANGED evs

\* ev_receive in its two parts, so that ev_send falls between them.  The
\* first part is ev_receive up to the point where ev_start_wait has marked
\* the block as waiting.
ev_receive_record(t, events, flags, timeout) ==
    LET id == ev_get_current_task_id
        call == [IdleEvThread EXCEPT !.events = events, !.flags = flags, !.timeout = timeout]
        e0 == [ecb[id] EXCEPT !.waiting_events = events,
                              !.wait_condition = IF FlagSet(flags, EV_ANY) THEN EV_ANY ELSE EV_ALL]
        got == e0.pending_events \cap events
    IN  /\ evthr[t].pc = "idle"
        /\ IF events = {}
           THEN /\ evthr' = [evthr EXCEPT ![t] = [call EXCEPT !.rc = "ERR_BADPARAM"]]
                /\ UNCHANGED ecb
           ELSE IF ev_check_conditions(e0)
           THEN /\ ecb' = [ecb EXCEPT ![id] =
                              IF e0.wait_condition = EV_ALL
                              THEN ev_clear_received(e0, events)
                              ELSE ev_clear_received(e0, got)]
                /\ evthr' = [evthr EXCEPT ![t] = [call EXCEPT !.rc = "OK", !.out = got]]
           ELSE IF FlagSet(flags, EV_NOWAIT)
           THEN /\ ecb' = [ecb EXCEPT ![id] = e0]
                /\ evthr' = [evthr EXCEPT ![t] = [call EXCEPT !.rc = "ERR_NOEVS"]]
           ELSE /\ ecb' = [ecb EXCEPT ![id] = [e0 EXCEPT !.state = EV_STATE_WAITING]]
                /\ evthr' = [evthr EXCEPT ![t] = [call EXCEPT !.pc = "ev_recorded"]]
        /\ UNCHANGED <<ev_ctx, evs>>

\* The second part: ev_start_wait creates a new host event object, not
\* signaled, stores it in the block, and the thread enters
\* ev_hw_generic_wait_event.
ev_receive_block(t) ==
    LET id == ev_get_current_task_id IN
    /\ evthr[t].pc = "ev_recorded"
    /\ ecb' = [ecb EXCEPT ![id].hw_context = t]
    /\ ev_ctx' = [ev_ctx EXCEPT ![t] = FALSE]
    /\ evthr' = [evthr EXCEPT ![t].pc = "ev_wait"]
    /\ UNCHANGED evs

\* The host event object of the waiting thread is signaled: wait_event
\* returns 0 and ev_complete_wait hands out received_events.
ev_receive_wake(t) ==
    LET id == ev_get_current_task_id IN
    /\ evthr[t].pc = "ev_wait"
    /\ ev_ctx[t]
    /\ ev_ctx' = [ev_ctx EXCEPT ![t] = FALSE]
    /\ evthr' = [evthr EXCEPT ![t] = [@ EXCEPT !.pc = "idle", !.rc = "OK",
                                               !.out = ecb[id].received_events,
                                               !.due = ecb[id].due]]
    /\ ecb' = [ecb EXCEPT ![id] = [@ EXCEPT !.waiting_events = {},
                                            !.wait_condition = 0,
                                            !.state = EV_STATE_FREE]]
    /\ UNCHANGED evs

\* pthread_cond_timedwait runs out on an object that is not signaled:
\* ev_cancel_wait clears the current host object and the wait state.
ev_receive_timedout(t) ==
    LET id == ev_get_current_task_id IN
    /\ evthr[t].pc = "ev_wait"
    /\ evthr[t].timeout # EV_INFINITE_TIMEOUT
    /\ ~ev_ctx[t]
    /\ ev_ctx' = IF ecb[id].hw_context = NULL THEN ev_ctx
                 ELSE [ev_ctx EXCEPT ![ecb[id].hw_context] = FALSE]
    /\ evthr' = [evthr EXCEPT ![t] = [@ EXCEPT !.pc = "idle", !.rc = "ERR_TIMEOUT"]]
    /\ ecb' = [ecb EXCEPT ![id] = [@ EXCEPT !.waiting_events = {},
                                            !.wait_condition = 0,
                                            !.state = EV_STATE_FREE]]
    /\ UNCHANGED evs

\* ev_send from its entry to the signal of the host event object.
ev_send(tid, events) ==
    /\ evs.pc = "idle"
    /\ IF tid >= MAX_TASK \/ events = {}
       THEN UNCHANGED eventVars
       ELSE LET e1 == [ecb[tid] EXCEPT !.pending_events = @ \cup events] IN
            IF ev_check_conditions(e1)
            THEN /\ ecb' = [ecb EXCEPT ![tid] =
                               [e1 EXCEPT !.due = e1.pending_events \cap e1.waiting_events]]
                 /\ ev_ctx' = IF e1.hw_context = NULL THEN ev_ctx
                              ELSE [ev_ctx EXCEPT ![e1.hw_context] = TRUE]
                 /\ evs' = [pc |-> "signaled", tid |-> tid]
                 /\ UNCHANGED evthr
            ELSE /\ ecb' = [ecb EXCEPT ![tid] = e1]
                 /\ UNCHANGED <<evthr, ev_ctx, evs>>

\* ev_send after the signal, on one event block: the received events are
\* prepared from the block as it is now and cleared from pending, and the
\* block is marked signaled.
ev_send_received(e) ==
    LET got == e.pending_events \cap e.waiting_events IN
    [(IF e.wait_condition = EV_ALL
      THEN ev_clear_received([e EXCEPT !.received_events = got], e.waiting_events)
      ELSE ev_clear_received(e, got))
     EXCEPT !.state = EV_STATE_SIGNALED]

ev_send_prepare ==
    /\ evs.pc = "signaled"
    /\ ecb' = [ecb EXCEPT ![evs.tid] = ev_send_received(ecb[evs.tid])]
    /\ evs' = [pc |-> "idle", tid |-> 0]
    /\ UNCHANGED <<evthr, ev_ctx>>

(***************************************************************************)
(* Timers: src/kernel/time/timer.c.  The active list is modelled as the    *)
(* sequence of its timer control blocks from pool->active_list along the   *)
(* next links.  timer.c has no critical section; each call and each        *)
(* tm_tick is taken as one step here.  t_ident is declared with three      *)
(* parameters (gxkernel.h:110) and called with none (timer.c:438, 602,     *)
(* 617): what comes back is its result code, 0 or ERR_OBJNF, and that      *)
(* value is used as the task id of the caller.                             *)
(***************************************************************************)
TM_TYPE_ONESHOT == 1
TM_TYPE_PERIODIC == 2
TM_TYPE_ABSOLUTE == 3
TM_STATE_ACTIVE == 1
TM_STATE_EXPIRED == 2
TM_ACTION_EVENT == 1
TM_ACTION_WAKEUP == 2
ERR_OBJNF == 9
TM_TICKS_PER_SEC == 100
TM_SYSTIME_DATE == 132710657     \* 0x07e90101, the date tm_time_init sets

\* Bounds: the ticks tm_tick counts and the timer ids handed out.
MaxTick == 4
MaxTimerId == 2

TM_MAX_TIMERS == 64

VARIABLES
    tm_initialized,     \* tm_global_state.initialized
    tm_pool,            \* pool->free_list (indexes into pool->timers) and pool->free_count
    active_list,        \* pool->active_list
    tm_next_id,         \* pool->next_id
    tick_count,         \* systime.tick_count (systime.ticks as well, below one second)
    tm_fired,           \* history: the firings, [id, type, start, delay, at]
    tm_cancelled        \* history: timer id -> tick_count at its tm_cancel

timerVars == <<tm_initialized, tm_pool, active_list, tm_next_id, tick_count, tm_fired,
              tm_cancelled>>

InitTimer ==
    /\ tm_initialized = FALSE
    /\ tm_pool = [free_list |-> <<>>, free_count |-> 0]
    /\ active_list = <<>>
    /\ tm_next_id = 1
    /\ tick_count = 0
    /\ tm_fired = <<>>
    /\ tm_cancelled = <<>>

\* tm_pool_init: every control block of pool->timers on the free list, in
\* index order.
tm_pool_init ==
    [free_list |-> [i \in 1..TM_MAX_TIMERS |-> i - 1], free_count |-> TM_MAX_TIMERS]

\* tm_init_once: the pool as the call finds it after the initialisation
\* that only the first call performs.
tm_init_once == IF tm_initialized THEN tm_pool ELSE tm_pool_init

\* tm_pool_alloc: the head of the free list is taken (the caller has
\* checked that there is one).
tm_pool_alloc(P) == [free_list |-> Tail(P.free_list), free_count |-> P.free_count - 1]

\* tm_pool_free without the count: the block is pushed, free_count stays.
tm_pool_free_no_count(P, slot) ==
    [free_list |-> <<slot>> \o P.free_list, free_count |-> P.free_count]

\* tm_pool_free, after tm_list_remove: the block is pushed on the free list.
tm_pool_free(P, slot) ==
    [free_list |-> <<slot>> \o P.free_list, free_count |-> P.free_count + 1]

\* tm_list_insert without the walk along the list: tm is linked in at the end.
tm_list_insert_at_end(L, tm) == L \o <<tm>>

\* The list with tm linked in behind every timer that expires no later.
tm_list_insert(L, tm) ==
    LET before == {i \in 1..Len(L) : \A j \in 1..i : L[j].expire_ticks <= tm.expire_ticks}
        k == Cardinality(before)
    IN  SubSeq(L, 1, k) \o <<tm>> \o SubSeq(L, k + 1, Len(L))

tm_list_remove(L, timer_id) == SelectSeq(L, LAMBDA x : x.timer_id # timer_id)

\* date, time and ticks of an absolute timer as a tick count; below one
\* second systime is date TM_SYSTIME_DATE, time 0, ticks tick_count.
tm_time_to_ticks(date, time, ticks) ==
    IF \/ date > TM_SYSTIME_DATE
       \/ (date = TM_SYSTIME_DATE /\ time > 0)
       \/ (date = TM_SYSTIME_DATE /\ time = 0 /\ ticks > tick_count)
    THEN tick_count + time * TM_TICKS_PER_SEC + (ticks - tick_count)
    ELSE tick_count

\* tm_create_timer: the control block tm_pool_alloc hands out, filled in
\* and inserted; ident is what t_ident() came back with.
tm_create_timer(type, action, ticks, events, date, time, ident) ==
    LET P0 == tm_init_once
        tm == [slot |-> Head(P0.free_list),
               timer_id |-> tm_next_id, state |-> TM_STATE_ACTIVE, type |-> type,
               action |-> action, events |-> events, task_id |-> ident,
               start_ticks |-> tick_count,
               delay_ticks |-> IF type = TM_TYPE_ABSOLUTE THEN 0 ELSE ticks,
               period_ticks |-> IF type = TM_TYPE_PERIODIC THEN ticks ELSE 0,
               expire_ticks |-> IF type = TM_TYPE_ABSOLUTE
                                THEN tm_time_to_ticks(date, time, ticks)
                                ELSE tick_count + ticks]
    IN  /\ tm_next_id <= MaxTimerId
        /\ tm_initialized' = TRUE
        /\ IF P0.free_count = 0 \/ P0.free_list = <<>>
           THEN /\ tm_pool' = P0                                    \* ERR_NOTIMERS
                /\ UNCHANGED <<tm_next_id, active_list>>
           ELSE /\ tm_pool' = tm_pool_alloc(P0)
                /\ tm_next_id' = tm_next_id + 1
                /\ active_list' = tm_list_insert(active_list, tm)
        /\ UNCHANGED <<tick_count, tm_fired, tm_cancelled>>

tm_evafter(ticks, events, ident) ==
    /\ IF ticks = 0 THEN UNCHANGED timerVars                        \* ERR_ILLTICKS
       ELSE tm_create_timer(TM_TYPE_ONESHOT, TM_ACTION_EVENT, ticks, events, 0, 0, ident)
    /\ UNCHANGED <<taskVars, eventVars>>

tm_evevery(ticks, events, ident) ==
    /\ IF ticks = 0 THEN UNCHANGED timerVars                        \* ERR_ILLTICKS
       ELSE tm_create_timer(TM_TYPE_PERIODIC, TM_ACTION_EVENT, ticks, events, 0, 0, ident)
    /\ UNCHANGED <<taskVars, eventVars>>

tm_evwhen(date, time, ticks, events, ident) ==
    /\ IF events = {} THEN UNCHANGED timerVars                      \* ERR_BADPARAM
       ELSE tm_create_timer(TM_TYPE_ABSOLUTE, TM_ACTION_EVENT, ticks, events, date, time, ident)
    /\ UNCHANGED <<taskVars, eventVars>>

\* The wakeup timer is made, then t_suspend is called with t_ident()'s value.
tm_wkafter(ticks, ident, g) ==
    /\ IF ticks = 0 THEN UNCHANGED <<timerVars, taskVars>>          \* ERR_ILLTICKS
       ELSE /\ tm_create_timer(TM_TYPE_ONESHOT, TM_ACTION_WAKEUP, ticks, {}, 0, 0, ident)
            /\ t_suspend(ident, g)
    /\ UNCHANGED eventVars

tm_wkwhen(date, time, ticks, ident, g) ==
    /\ tm_create_timer(TM_TYPE_ABSOLUTE, TM_ACTION_WAKEUP, ticks, {}, date, time, ident)
    /\ t_suspend(ident, g)
    /\ UNCHANGED eventVars

\* tm_cancel without its tm_pool_free: the timer stays in the active list.
tm_cancel_no_free(tmid) ==
    /\ tm_initialized' = TRUE
    /\ tm_pool' = tm_init_once
    /\ IF \E i \in 1..Len(active_list) : active_list[i].timer_id = tmid
       THEN tm_cancelled' = Append(tm_cancelled, [id |-> tmid, at |-> tick_count])
       ELSE UNCHANGED tm_cancelled
    /\ UNCHANGED <<active_list, tm_next_id, tick_count, tm_fired, taskVars, eventVars>>

\* tm_cancel: tm_pool_find searches the active list, tm_pool_free unlinks.
tm_cancel(tmid) ==
    /\ tm_initialized' = TRUE
    /\ IF \E i \in 1..Len(active_list) : active_list[i].timer_id = tmid
       THEN LET i == CHOOSE i \in 1..Len(active_list) : active_list[i].timer_id = tmid IN
            /\ active_list' = tm_list_remove(active_list, tmid)
            /\ tm_pool' = tm_pool_free(tm_init_once, active_list[i].slot)
            /\ tm_cancelled' = Append(tm_cancelled, [id |-> tmid, at |-> tick_count])
       ELSE /\ tm_pool' = tm_init_once                              \* ERR_BADTMID
            /\ UNCHANGED <<active_list, tm_cancelled>>
    /\ UNCHANGED <<tm_next_id, tick_count, tm_fired, taskVars, eventVars>>

\* tm_list_get_expired with < for <=: a timer is taken one tick late.
tm_list_get_expired_late(L, now) ==
    IF L # <<>> /\ Head(L).expire_ticks < now THEN <<Head(L)>> ELSE <<>>

\* The first timer of the list if it has expired at tick now (as a
\* sequence of one), else the empty sequence for NULL.
tm_list_get_expired(L, now) ==
    IF L # <<>> /\ Head(L).expire_ticks <= now THEN <<Head(L)>> ELSE <<>>

\* tm_fire_timer on the kernel state X = [L: the active list, P: the free
\* list and its count, E: the event blocks, C: the host event objects,
\* S: the scheduler, F: the firings]:
\* ev_send or t_resume with the task id stored in the timer.
tm_fire_timer(X, tm, now) ==
    LET F1 == Append(X.F, [id |-> tm.timer_id, type |-> tm.type, start |-> tm.start_ticks,
                           delay |-> tm.delay_ticks, at |-> now])
        tid == tm.task_id
    IN  IF tm.action = TM_ACTION_EVENT
        THEN IF tm.events = {} \/ tid \notin DOMAIN X.E
             THEN [X EXCEPT !.F = F1]
             ELSE LET e1 == [X.E[tid] EXCEPT !.pending_events = @ \cup tm.events] IN
                  IF ev_check_conditions(e1)
                  THEN [X EXCEPT !.F = F1,
                                 !.E[tid] = ev_send_received(
                                     [e1 EXCEPT !.due = e1.pending_events \cap e1.waiting_events]),
                                 !.C = IF e1.hw_context = NULL THEN @
                                       ELSE [@ EXCEPT ![e1.hw_context] = TRUE]]
                  ELSE [X EXCEPT !.F = F1, !.E[tid] = e1]
        ELSE LET t == t_pool_find(X.S.tcb, tid) IN
             IF t = NULL \/ X.S.tcb[t].state # T_STATE_SUSPENDED
             THEN [X EXCEPT !.F = F1]                   \* ERR_OBJID, ERR_NOTSUSP
             ELSE [X EXCEPT !.F = F1,
                            !.S = t_scheduler_preempt(t_set_state(X.S, t, T_STATE_READY), 0)]

\* tm_process_expired: while the head of the list has expired, fire it; a
\* periodic timer is reinserted at its deadline plus its period, any other
\* timer is unlinked and freed.
RECURSIVE tm_process_expired(_, _)
tm_process_expired(X, now) ==
    LET hit == tm_list_get_expired(X.L, now) IN
    IF hit = <<>> THEN X
    ELSE LET tm == hit[1]
             X1 == tm_fire_timer(X, tm, now)
             rest == tm_list_remove(X.L, tm.timer_id)
         IN  tm_process_expired(
                 [X1 EXCEPT !.L = IF tm.type = TM_TYPE_PERIODIC
                                  THEN tm_list_insert(rest,
                                           [tm EXCEPT !.state = TM_STATE_EXPIRED,
                                                      !.expire_ticks = @ + tm.period_ticks])
                                  ELSE rest,
                            !.P = IF tm.type = TM_TYPE_PERIODIC
                                  THEN @ ELSE tm_pool_free(@, tm.slot)],
                 now)

\* tm_tick: nothing before the first timer call initialised the module;
\* then the tick is counted and the expired timers are processed.
tm_tick ==
    /\ tick_count < MaxTick
    /\ IF ~tm_initialized
       THEN UNCHANGED <<timerVars, taskVars, eventVars>>
       ELSE LET X == tm_process_expired([L |-> active_list, P |-> tm_pool, E |-> ecb, C |-> ev_ctx,
                                         S |-> Sched, F |-> tm_fired], tick_count + 1)
            IN  /\ tick_count' = tick_count + 1
                /\ active_list' = X.L
                /\ tm_pool' = X.P
                /\ tm_fired' = X.F
                /\ ecb' = X.E
                /\ ev_ctx' = X.C
                /\ Commit(X.S)
                /\ UNCHANGED <<tm_initialized, tm_next_id, tm_cancelled, evthr, evs,
                               free_list, next_id, total_stack_used, t_mode_ret>>

(***************************************************************************)
(* Specifications                                                          *)
(***************************************************************************)
vars == <<taskVars, semVars, queueVars, eventVars, timerVars>>

Init == InitTask /\ InitSem /\ InitQueue /\ InitEvent /\ InitTimer

\* The task calls alone.
NextTask ==
    \/ \E prio \in PrioInputs, stack \in StackInputs :
          t_create(prio, stack) /\ UNCHANGED <<semVars, queueVars, eventVars, timerVars>>
    \/ \E tid \in TaskIds, mode \in ModeInputs, ctxOk \in BOOLEAN, g \in CtzUndefined :
          t_start(tid, mode, ctxOk, g) /\ UNCHANGED <<semVars, queueVars, eventVars, timerVars>>
    \/ \E tid \in TaskIds, g \in CtzUndefined : t_suspend(tid, g) /\ UNCHANGED <<semVars, queueVars, eventVars, timerVars>>
    \/ \E tid \in TaskIds, g \in CtzUndefined : t_resume(tid, g) /\ UNCHANGED <<semVars, queueVars, eventVars, timerVars>>
    \/ \E tid \in TaskIds, newprio \in PrioInputs, g \in CtzUndefined :
          t_setpri(tid, newprio, g) /\ UNCHANGED <<semVars, queueVars, eventVars, timerVars>>
    \/ \E tid \in TaskIds, ctxOk \in BOOLEAN : t_restart(tid, ctxOk) /\ UNCHANGED <<semVars, queueVars, eventVars, timerVars>>
    \/ \E tid \in TaskIds, g \in CtzUndefined : t_delete(tid, g) /\ UNCHANGED <<semVars, queueVars, eventVars, timerVars>>

SpecTask == Init /\ [][NextTask]_vars

\* The semaphore calls alone, made by the threads of the tasks.
NextSem ==
    \/ \E count \in CountInputs, flags \in SmCreateFlags :
          sm_create(count, flags) /\ UNCHANGED <<taskVars, queueVars, eventVars, timerVars>>
    \/ \E t \in Threads, flags \in SmWaitFlags, timeout \in TimeoutInputs :
          sm_p(t, flags, timeout) /\ UNCHANGED <<taskVars, queueVars, eventVars, timerVars>>
    \/ \E t \in Threads : sm_p_return(t) /\ UNCHANGED <<taskVars, queueVars, eventVars, timerVars>>
    \/ \E t \in Threads : sm_p_timedout(t) /\ UNCHANGED <<taskVars, queueVars, eventVars, timerVars>>
    \/ sm_v /\ UNCHANGED <<taskVars, queueVars, eventVars, timerVars>>

SpecSem == Init /\ [][NextSem]_vars

\* The semaphore calls with sm_p in its two parts, so that the calls of
\* other threads fall between the test of the count and the queueing.
NextSemRace ==
    \/ \E count \in {0, 1} : sm_create(count, SM_FIFO) /\ UNCHANGED <<taskVars, queueVars, eventVars, timerVars>>
    \/ \E t \in Threads, flags \in SmWaitFlags, timeout \in TimeoutInputs :
          sm_p_check(t, flags, timeout) /\ UNCHANGED <<taskVars, queueVars, eventVars, timerVars>>
    \/ \E t \in Threads : sm_p_queue(t) /\ UNCHANGED <<taskVars, queueVars, eventVars, timerVars>>
    \/ \E t \in Threads : sm_p_return(t) /\ UNCHANGED <<taskVars, queueVars, eventVars, timerVars>>
    \/ \E t \in Threads : sm_p_timedout(t) /\ UNCHANGED <<taskVars, queueVars, eventVars, timerVars>>
    \/ sm_v /\ UNCHANGED <<taskVars, queueVars, eventVars, timerVars>>

SpecSemRace == Init /\ [][NextSemRace]_vars

\* The semaphore calls with a timeout of 0 ticks, of 50 ticks and without
\* timeout.
NextSemTimeout ==
    \/ \E count \in {0, 1} : sm_create(count, SM_FIFO) /\ UNCHANGED <<taskVars, queueVars, eventVars, timerVars>>
    \/ \E t \in Threads, timeout \in {0, 50, SM_INFINITE_TIMEOUT} :
          sm_p(t, SM_WAIT, timeout) /\ UNCHANGED <<taskVars, queueVars, eventVars, timerVars>>
    \/ \E t \in Threads : sm_p_return(t) /\ UNCHANGED <<taskVars, queueVars, eventVars, timerVars>>
    \/ \E t \in Threads : sm_p_timedout(t) /\ UNCHANGED <<taskVars, queueVars, eventVars, timerVars>>
    \/ sm_v /\ UNCHANGED <<taskVars, queueVars, eventVars, timerVars>>

SpecSemTimeout == Init /\ [][NextSemTimeout]_vars

\* The semaphore calls on a semaphore created at its ceiling, one below it or
\* one above it.
NextSemCeiling ==
    \/ \E count \in {SM_DEFAULT_MAX - 1, SM_DEFAULT_MAX, SM_DEFAULT_MAX + 1} :
          sm_create(count, SM_FIFO) /\ UNCHANGED <<taskVars, queueVars, eventVars, timerVars>>
    \/ \E t \in Threads : sm_p(t, SM_NOWAIT, 0) /\ UNCHANGED <<taskVars, queueVars, eventVars, timerVars>>
    \/ sm_p(1, SM_WAIT, SM_INFINITE_TIMEOUT) /\ UNCHANGED <<taskVars, queueVars, eventVars, timerVars>>
    \/ sm_p_return(1) /\ UNCHANGED <<taskVars, queueVars, eventVars, timerVars>>
    \/ sm_v /\ UNCHANGED <<taskVars, queueVars, eventVars, timerVars>>

SpecSemCeiling == Init /\ [][NextSemCeiling]_vars

\* Tasks that are created and never started: every call but t_start.
NextUnstarted ==
    \/ \E prio \in PrioInputs, stack \in StackInputs :
          t_create(prio, stack) /\ UNCHANGED <<semVars, queueVars, eventVars, timerVars>>
    \/ \E tid \in TaskIds, g \in CtzUndefined : t_suspend(tid, g) /\ UNCHANGED <<semVars, queueVars, eventVars, timerVars>>
    \/ \E tid \in TaskIds, g \in CtzUndefined : t_resume(tid, g) /\ UNCHANGED <<semVars, queueVars, eventVars, timerVars>>
    \/ \E tid \in TaskIds, newprio \in PrioInputs, g \in CtzUndefined :
          t_setpri(tid, newprio, g) /\ UNCHANGED <<semVars, queueVars, eventVars, timerVars>>

SpecUnstarted == Init /\ [][NextUnstarted]_vars

\* Tasks that change their mode: every mode bit alone, none and all of them,
\* as the mask and as the new value.
MaxModeTasks == 2
ModeBits == {0, T_NOPREEMPT, T_TSLICE, T_NOASR, T_NOISR,
             T_NOPREEMPT + T_TSLICE + T_NOASR + T_NOISR}

NextMode ==
    \/ \E prio \in {1, 2} :
          /\ next_id <= MaxModeTasks
          /\ t_create(prio, T_MIN_STACK_SIZE)
          /\ UNCHANGED <<semVars, queueVars, eventVars, timerVars>>
    \/ \E tid \in TaskIds, mode \in ModeInputs :
          t_start(tid, mode, TRUE, 0) /\ UNCHANGED <<semVars, queueVars, eventVars, timerVars>>
    \/ \E mask \in ModeBits, new_mode \in ModeBits :
          t_mode(mask, new_mode) /\ UNCHANGED <<semVars, queueVars, eventVars, timerVars>>

SpecMode == Init /\ [][NextMode]_vars

\* Tasks and a semaphore together: the running task calls sm_p from its
\* thread while the task calls go on around it.  The priorities used are
\* below UINT_BITS, where the bit scan is defined (its undefined result is
\* never consulted and passed as 0).
MaxKernelTasks == 2
KernelPrios == {1, 2}

IsRunning(t) == current_task = t /\ T_IS_VALID_TCB(tcb, t) /\ tcb[t].state = T_STATE_RUNNING

NextKernel ==
    \/ \E prio \in KernelPrios :
          /\ next_id <= MaxKernelTasks
          /\ t_create(prio, T_MIN_STACK_SIZE)
          /\ UNCHANGED <<semVars, queueVars, eventVars, timerVars>>
    \/ \E tid \in TaskIds : t_start(tid, 0, TRUE, 0) /\ UNCHANGED <<semVars, queueVars, eventVars, timerVars>>
    \/ \E tid \in TaskIds : t_suspend(tid, 0) /\ UNCHANGED <<semVars, queueVars, eventVars, timerVars>>
    \/ \E tid \in TaskIds : t_resume(tid, 0) /\ UNCHANGED <<semVars, queueVars, eventVars, timerVars>>
    \/ sm_create(0, SM_FIFO) /\ UNCHANGED <<taskVars, queueVars, eventVars, timerVars>>
    \/ \E t \in Threads, timeout \in TimeoutInputs :
          IsRunning(t) /\ sm_p(t, SM_WAIT, timeout) /\ UNCHANGED <<taskVars, queueVars, eventVars, timerVars>>
    \/ \E t \in Threads : sm_p_return(t) /\ UNCHANGED <<taskVars, queueVars, eventVars, timerVars>>
    \/ \E t \in Threads : sm_p_timedout(t) /\ UNCHANGED <<taskVars, queueVars, eventVars, timerVars>>
    \/ sm_v /\ UNCHANGED <<taskVars, queueVars, eventVars, timerVars>>

SpecKernel == Init /\ [][NextKernel]_vars

\* Tasks of different priorities waiting on one semaphore, of either
\* wait-ordering policy.
NextSemOrder ==
    \/ \E prio \in KernelPrios :
          /\ next_id <= MaxKernelTasks
          /\ t_create(prio, T_MIN_STACK_SIZE)
          /\ UNCHANGED <<semVars, queueVars, eventVars, timerVars>>
    \/ \E tid \in TaskIds : t_start(tid, 0, TRUE, 0) /\ UNCHANGED <<semVars, queueVars, eventVars, timerVars>>
    \/ \E flags \in {SM_FIFO, SM_PRIOR} :
          sm_create(0, flags) /\ UNCHANGED <<taskVars, queueVars, eventVars, timerVars>>
    \/ \E t \in Threads :
          IsRunning(t) /\ sm_p(t, SM_WAIT, SM_INFINITE_TIMEOUT)
                       /\ UNCHANGED <<taskVars, queueVars, eventVars, timerVars>>
    \/ \E t \in Threads : sm_p_return(t) /\ UNCHANGED <<taskVars, queueVars, eventVars, timerVars>>
    \/ sm_v /\ UNCHANGED <<taskVars, queueVars, eventVars, timerVars>>

SpecSemOrder == Init /\ [][NextSemOrder]_vars

\* The same with t_delete and the wakeup timers of tm_wkafter.
NextReap ==
    \/ \E prio \in KernelPrios :
          /\ next_id <= MaxKernelTasks
          /\ t_create(prio, T_MIN_STACK_SIZE)
          /\ UNCHANGED <<semVars, queueVars, eventVars, timerVars>>
    \/ \E tid \in TaskIds : t_start(tid, 0, TRUE, 0) /\ UNCHANGED <<semVars, queueVars, eventVars, timerVars>>
    \/ \E tid \in TaskIds : t_suspend(tid, 0) /\ UNCHANGED <<semVars, queueVars, eventVars, timerVars>>
    \/ \E tid \in TaskIds : t_delete(tid, 0) /\ UNCHANGED <<semVars, queueVars, eventVars, timerVars>>
    \/ sm_create(0, SM_FIFO) /\ UNCHANGED <<taskVars, queueVars, eventVars, timerVars>>
    \/ \E t \in Threads :
          IsRunning(t) /\ sm_p(t, SM_WAIT, SM_INFINITE_TIMEOUT) /\ UNCHANGED <<taskVars, queueVars, eventVars, timerVars>>
    \/ \E t \in Threads : sm_p_return(t) /\ UNCHANGED <<taskVars, queueVars, eventVars, timerVars>>
    \/ sm_v /\ UNCHANGED <<taskVars, queueVars, eventVars, timerVars>>
    \/ \E c \in Threads, ident \in {0, ERR_OBJNF} :
          IsRunning(c) /\ tm_wkafter(1, ident, 0) /\ UNCHANGED <<semVars, queueVars>>
    \/ tm_tick /\ UNCHANGED <<semVars, queueVars>>

SpecReap == Init /\ [][NextReap]_vars

\* The queue calls alone: one sending thread, the receiving threads.
NextQueue ==
    \/ \E count \in QCountInputs : q_create(count) /\ UNCHANGED <<taskVars, semVars, eventVars, timerVars>>
    \/ q_send_begin /\ UNCHANGED <<taskVars, semVars, eventVars, timerVars>>
    \/ q_send_copy /\ UNCHANGED <<taskVars, semVars, eventVars, timerVars>>
    \/ q_urgent /\ UNCHANGED <<taskVars, semVars, eventVars, timerVars>>
    \/ \E r \in Receivers, flags \in QWaitFlags, timeout \in TimeoutInputs :
          q_receive(r, flags, timeout) /\ UNCHANGED <<taskVars, semVars, eventVars, timerVars>>
    \/ \E r \in Receivers : q_receive_wake(r) /\ UNCHANGED <<taskVars, semVars, eventVars, timerVars>>
    \/ \E r \in Receivers : q_receive_timedout(r) /\ UNCHANGED <<taskVars, semVars, eventVars, timerVars>>

SpecQueue == Init /\ [][NextQueue]_vars

\* The host runs every thread that can run: a sender inside q_send finishes
\* its copy, a receiver whose semaphore is posted or whose timeout has run
\* out returns.
FairSpecQueue ==
    /\ SpecQueue
    /\ WF_vars(q_send_copy /\ UNCHANGED <<taskVars, semVars, eventVars, timerVars>>)
    /\ \A r \in Receivers :
          /\ WF_vars(q_receive_wake(r) /\ UNCHANGED <<taskVars, semVars, eventVars, timerVars>>)
          /\ WF_vars(q_receive_timedout(r) /\ UNCHANGED <<taskVars, semVars, eventVars, timerVars>>)

\* The queue calls with every q_receive a waiting one (no Q_NOWAIT).
NextQueueWait ==
    \/ q_create(Q_MIN_COUNT) /\ UNCHANGED <<taskVars, semVars, eventVars, timerVars>>
    \/ q_send_begin /\ UNCHANGED <<taskVars, semVars, eventVars, timerVars>>
    \/ q_send_copy /\ UNCHANGED <<taskVars, semVars, eventVars, timerVars>>
    \/ q_urgent /\ UNCHANGED <<taskVars, semVars, eventVars, timerVars>>
    \/ \E r \in Receivers, timeout \in TimeoutInputs :
          q_receive(r, Q_WAIT, timeout) /\ UNCHANGED <<taskVars, semVars, eventVars, timerVars>>
    \/ \E r \in Receivers : q_receive_wake(r) /\ UNCHANGED <<taskVars, semVars, eventVars, timerVars>>
    \/ \E r \in Receivers : q_receive_timedout(r) /\ UNCHANGED <<taskVars, semVars, eventVars, timerVars>>

SpecQueueWait == Init /\ [][NextQueueWait]_vars

\* Queues created and deleted one after the other, with the smallest, the
\* largest and a too small capacity, and messages passed through them.
NextArena ==
    \/ \E count \in {2, Q_MIN_COUNT, Q_MAX_COUNT} :
          q_create(count) /\ UNCHANGED <<taskVars, semVars, eventVars, timerVars>>
    \/ q_urgent /\ UNCHANGED <<taskVars, semVars, eventVars, timerVars>>
    \/ q_receive(1, Q_NOWAIT, 0) /\ UNCHANGED <<taskVars, semVars, eventVars, timerVars>>
    \/ q_delete /\ UNCHANGED <<taskVars, semVars, eventVars, timerVars>>

SpecArena == Init /\ [][NextArena]_vars

\* q_broadcast next to q_urgent and the receiving threads.
NextBroadcast ==
    \/ q_create(Q_MIN_COUNT) /\ UNCHANGED <<taskVars, semVars, eventVars, timerVars>>
    \/ q_broadcast_begin /\ UNCHANGED <<taskVars, semVars, eventVars, timerVars>>
    \/ q_broadcast_copy /\ UNCHANGED <<taskVars, semVars, eventVars, timerVars>>
    \/ q_urgent /\ UNCHANGED <<taskVars, semVars, eventVars, timerVars>>
    \/ \E r \in Receivers, flags \in QWaitFlags, timeout \in TimeoutInputs :
          q_receive(r, flags, timeout) /\ UNCHANGED <<taskVars, semVars, eventVars, timerVars>>
    \/ \E r \in Receivers : q_receive_wake(r) /\ UNCHANGED <<taskVars, semVars, eventVars, timerVars>>
    \/ \E r \in Receivers : q_receive_timedout(r) /\ UNCHANGED <<taskVars, semVars, eventVars, timerVars>>

SpecBroadcast == Init /\ [][NextBroadcast]_vars

\* The event calls alone: the receiving threads and one sending thread.
NextEvent ==
    \/ \E t \in EvTasks, events \in {{}, {0, 1}, {0, 1, 2, 3}},
          flags \in {EV_ALL, EV_ANY, EV_NOWAIT}, timeout \in {0, EV_INFINITE_TIMEOUT} :
          ev_receive(t, events, flags, timeout) /\ UNCHANGED <<taskVars, semVars, queueVars, timerVars>>
    \/ \E t \in EvTasks : ev_receive_wake(t) /\ UNCHANGED <<taskVars, semVars, queueVars, timerVars>>
    \/ \E t \in EvTasks : ev_receive_timedout(t) /\ UNCHANGED <<taskVars, semVars, queueVars, timerVars>>
    \/ \E tid \in 0..MaxEvTasks, events \in {{}, {0, 1}, {2, 3}} :
          ev_send(tid, events) /\ UNCHANGED <<taskVars, semVars, queueVars, timerVars>>
    \/ ev_send_prepare /\ UNCHANGED <<taskVars, semVars, queueVars, timerVars>>

SpecEvent == Init /\ [][NextEvent]_vars

\* The event calls with ev_receive in its two parts and no timeout; the
\* host runs every thread that can run.
NextEventRace ==
    \/ \E t \in EvTasks, events \in {{0}, {0, 1}}, flags \in {EV_ALL, EV_ANY} :
          ev_receive_record(t, events, flags, EV_INFINITE_TIMEOUT)
              /\ UNCHANGED <<taskVars, semVars, queueVars, timerVars>>
    \/ \E t \in EvTasks : ev_receive_block(t) /\ UNCHANGED <<taskVars, semVars, queueVars, timerVars>>
    \/ \E t \in EvTasks : ev_receive_wake(t) /\ UNCHANGED <<taskVars, semVars, queueVars, timerVars>>
    \/ \E events \in {{0}, {1}, {0, 1}} :
          ev_send(0, events) /\ UNCHANGED <<taskVars, semVars, queueVars, timerVars>>
    \/ ev_send_prepare /\ UNCHANGED <<taskVars, semVars, queueVars, timerVars>>

SpecEventRace == Init /\ [][NextEventRace]_vars

FairSpecEventRace ==
    /\ SpecEventRace
    /\ WF_vars(ev_send_prepare /\ UNCHANGED <<taskVars, semVars, queueVars, timerVars>>)
    /\ \A t \in EvTasks :
          /\ WF_vars(ev_receive_block(t) /\ UNCHANGED <<taskVars, semVars, queueVars, timerVars>>)
          /\ WF_vars(ev_receive_wake(t) /\ UNCHANGED <<taskVars, semVars, queueVars, timerVars>>)

\* The timer calls and the tick, with a thread receiving the events the
\* timers send.
NextTimer ==
    \/ \E ticks \in {0, 1, 2}, ident \in {0, ERR_OBJNF} :
          tm_evafter(ticks, {0}, ident) /\ UNCHANGED <<semVars, queueVars>>
    \/ \E ticks \in {0, 1, 2}, ident \in {0, ERR_OBJNF} :
          tm_evevery(ticks, {0}, ident) /\ UNCHANGED <<semVars, queueVars>>
    \/ \E date \in {TM_SYSTIME_DATE, TM_SYSTIME_DATE + 1}, ticks \in {0, 3}, events \in {{}, {0}} :
          tm_evwhen(date, 0, ticks, events, 0) /\ UNCHANGED <<semVars, queueVars>>
    \/ \E ticks \in {0, 2}, ident \in {0, ERR_OBJNF} :
          tm_wkafter(ticks, ident, 0) /\ UNCHANGED <<semVars, queueVars>>
    \/ \E ticks \in {0, 3} :
          tm_wkwhen(TM_SYSTIME_DATE, 0, ticks, ERR_OBJNF, 0) /\ UNCHANGED <<semVars, queueVars>>
    \/ \E tmid \in 0..MaxTimerId : tm_cancel(tmid) /\ UNCHANGED <<semVars, queueVars>>
    \/ tm_tick /\ UNCHANGED <<semVars, queueVars>>
    \/ \E t \in EvTasks, flags \in {EV_ALL, EV_NOWAIT} :
          ev_receive(t, {0}, flags, EV_INFINITE_TIMEOUT)
              /\ UNCHANGED <<taskVars, semVars, queueVars, timerVars>>
    \/ \E t \in EvTasks : ev_receive_wake(t) /\ UNCHANGED <<taskVars, semVars, queueVars, timerVars>>

SpecTimer == Init /\ [][NextTimer]_vars

\* Tasks and the sleep call: the running task calls tm_wkafter from its
\* thread, the tick goes on.
NextSleep ==
    \/ \E prio \in KernelPrios :
          /\ next_id <= MaxKernelTasks
          /\ t_create(prio, T_MIN_STACK_SIZE)
          /\ UNCHANGED <<semVars, queueVars, eventVars, timerVars>>
    \/ \E tid \in TaskIds : t_start(tid, 0, TRUE, 0) /\ UNCHANGED <<semVars, queueVars, eventVars, timerVars>>
    \/ \E c \in Threads, ticks \in {0, 1, 2}, ident \in {0, ERR_OBJNF} :
          IsRunning(c) /\ tm_wkafter(ticks, ident, 0) /\ UNCHANGED <<semVars, queueVars>>
    \/ tm_tick /\ UNCHANGED <<semVars, queueVars>>

SpecSleep == Init /\ [][NextSleep]_vars

\* Deletion under waiters: one semaphore and one queue, created empty, the
\* threads that block on them and the thread that deletes them.  The
\* semaphore is not created again while a thread is still parked on its
\* predecessor; the queue is created once.
NextDelete ==
    \/ /\ \A t \in Threads : thr[t].pc = "idle"
       /\ sm_create(0, SM_FIFO)
       /\ UNCHANGED <<taskVars, queueVars, eventVars, timerVars>>
    \/ \E t \in 1..MaxDeleteWaiters, timeout \in TimeoutInputs :
          sm_p(t, SM_WAIT, timeout) /\ UNCHANGED <<taskVars, queueVars, eventVars, timerVars>>
    \/ \E t \in Threads : sm_p_return(t) /\ UNCHANGED <<taskVars, queueVars, eventVars, timerVars>>
    \/ \E t \in Threads : sm_p_timedout(t) /\ UNCHANGED <<taskVars, queueVars, eventVars, timerVars>>
    \/ \E t \in Threads : sm_p_destroyed(t) /\ UNCHANGED <<taskVars, queueVars, eventVars, timerVars>>
    \/ sm_v /\ UNCHANGED <<taskVars, queueVars, eventVars, timerVars>>
    \/ sm_delete /\ UNCHANGED <<taskVars, queueVars, eventVars, timerVars>>
    \/ /\ bufpool.next_available = 0
       /\ q_create(Q_MIN_COUNT)
       /\ UNCHANGED <<taskVars, semVars, eventVars, timerVars>>
    \/ \E r \in 1..MaxDeleteWaiters, timeout \in TimeoutInputs :
          q_receive(r, Q_WAIT, timeout) /\ UNCHANGED <<taskVars, semVars, eventVars, timerVars>>
    \/ \E r \in Receivers : q_receive_wake(r) /\ UNCHANGED <<taskVars, semVars, eventVars, timerVars>>
    \/ \E r \in Receivers : q_receive_timedout(r) /\ UNCHANGED <<taskVars, semVars, eventVars, timerVars>>
    \/ \E r \in Receivers : q_receive_destroyed(r) /\ UNCHANGED <<taskVars, semVars, eventVars, timerVars>>
    \/ q_urgent /\ UNCHANGED <<taskVars, semVars, eventVars, timerVars>>
    \/ q_delete /\ UNCHANGED <<taskVars, semVars, eventVars, timerVars>>

SpecDelete == Init /\ [][NextDelete]_vars

\* The waiting calls of the three services with a timeout of 0 and without
\* timeout: one thread in sm_p, one in q_receive, one in ev_receive, and
\* the calls that grant them.
NextZeroTimeout ==
    \/ sm_create(0, SM_FIFO) /\ UNCHANGED <<taskVars, queueVars, eventVars, timerVars>>
    \/ \E timeout \in TimeoutInputs :
          sm_p(1, SM_WAIT, timeout) /\ UNCHANGED <<taskVars, queueVars, eventVars, timerVars>>
    \/ \E t \in Threads : sm_p_return(t) /\ UNCHANGED <<taskVars, queueVars, eventVars, timerVars>>
    \/ \E t \in Threads : sm_p_timedout(t) /\ UNCHANGED <<taskVars, queueVars, eventVars, timerVars>>
    \/ sm_v /\ UNCHANGED <<taskVars, queueVars, eventVars, timerVars>>
    \/ q_create(Q_MIN_COUNT) /\ UNCHANGED <<taskVars, semVars, eventVars, timerVars>>
    \/ \E timeout \in TimeoutInputs :
          q_receive(1, Q_WAIT, timeout) /\ UNCHANGED <<taskVars, semVars, eventVars, timerVars>>
    \/ \E r \in Receivers : q_receive_wake(r) /\ UNCHANGED <<taskVars, semVars, eventVars, timerVars>>
    \/ \E r \in Receivers : q_receive_timedout(r) /\ UNCHANGED <<taskVars, semVars, eventVars, timerVars>>
    \/ q_urgent /\ UNCHANGED <<taskVars, semVars, eventVars, timerVars>>
    \/ \E timeout \in {0, EV_INFINITE_TIMEOUT} :
          ev_receive(1, {0, 1}, EV_ALL, timeout) /\ UNCHANGED <<taskVars, semVars, queueVars, timerVars>>
    \/ \E t \in EvTasks : ev_receive_wake(t) /\ UNCHANGED <<taskVars, semVars, queueVars, timerVars>>
    \/ \E t \in EvTasks : ev_receive_timedout(t) /\ UNCHANGED <<taskVars, semVars, queueVars, timerVars>>
    \/ ev_send(0, {0, 1}) /\ UNCHANGED <<taskVars, semVars, queueVars, timerVars>>
    \/ ev_send_prepare /\ UNCHANGED <<taskVars, semVars, queueVars, timerVars>>

SpecZeroTimeout == Init /\ [][NextZeroTimeout]_vars

\* The host runs every thread that can run: a parked thread whose semaphore
\* is posted or whose timeout has run out returns.  Nothing makes a thread
\* parked on a destroyed semaphore return.
FairSpecDelete ==
    /\ SpecDelete
    /\ \A t \in Threads :
          /\ WF_vars(sm_p_return(t) /\ UNCHANGED <<taskVars, queueVars, eventVars, timerVars>>)
          /\ WF_vars(sm_p_timedout(t) /\ UNCHANGED <<taskVars, queueVars, eventVars, timerVars>>)
    /\ \A r \in Receivers :
          /\ WF_vars(q_receive_wake(r) /\ UNCHANGED <<taskVars, semVars, eventVars, timerVars>>)
          /\ WF_vars(q_receive_timedout(r) /\ UNCHANGED <<taskVars, semVars, eventVars, timerVars>>)

(***************************************************************************)
(* Scheduler claims                                                        *)
(***************************************************************************)
T_MODE_TEST(mode, mask) == (mode \div mask) % 2 = 1

\* A step that switches the running task out in favour of another one:
\* t_scheduler_reschedule turned it from RUNNING to READY.
SwitchedOut ==
    /\ current_task # NULL
    /\ tcb[current_task].state = T_STATE_RUNNING
    /\ current_task' # current_task
    /\ tcb'[current_task].state = T_STATE_READY

\* C1: when a call makes a task ready, the running task is switched out only
\* if the task taking over has a numerically lower priority and the running
\* task does not have NoPreempt set in its mode.
C1_PreemptOnlyByHigherPriority ==
    [][SwitchedOut =>
          /\ tcb'[current_task'].priority < tcb'[current_task].priority
          /\ ~T_MODE_TEST(tcb[current_task].mode, T_NOPREEMPT)]_vars

\* C2: every selection of the scheduler is the head of the ready list of the
\* numerically lowest priority whose list is not empty.
C2_SelectsLowestNonEmptyHead == last_sel.got = last_sel.want

\* C3: bit p of the ready bitmap is set exactly when the ready list of
\* priority p is not empty.
C3_BitmapMatchesLists ==
    \A p \in Levels : (p \in ready_mask) <=> (ready_lists[p] # NULL)

(***************************************************************************)
(* Semaphore claims                                                        *)
(***************************************************************************)
\* C5: the number of sm_p calls that returned 0 never exceeds the initial
\* count plus the number of sm_v calls.
C5_AcquiresBoundedByReleases == p_ok <= scb.initial_count + v_cnt

\* C6: on a semaphore created with count 0, a thread parked in sm_p returns
\* 0 only as the waiter whose node sm_v took off the head of the wait list,
\* and an sm_v that finds waiters removes exactly the head node and leaves
\* the count unchanged.
C6_SmVWakesExactlyHeadWaiter ==
    [][scb.initial_count = 0 =>
          /\ \A t \in Threads :
                (thr[t].pc = "sm_wait" /\ thr'[t].pc = "idle" /\ thr'[t].rc = "OK")
                   => t \in granted
          /\ (v_cnt' = v_cnt + 1 /\ scb.wait_count > 0)
                => /\ scb'.wq = Tail(scb.wq)
                   /\ scb'.current_count = scb.current_count]_vars

(***************************************************************************)
(* Task list membership                                                    *)
(***************************************************************************)
RECURSIVE Chain(_, _)
\* The TCBs reached from t along the next pointers, in at most n steps.
Chain(t, n) == IF t = NULL \/ n = 0 THEN {} ELSE {t} \cup Chain(tcb[t].next, n - 1)

InReadyList(t) == \E p \in Levels : t \in Chain(ready_lists[p], MaxTasks)

\* t is parked in sm_p and a node queued on its behalf is in the wait list.
InWaitList(t) ==
    /\ thr[t].pc = "sm_wait"
    /\ \E i \in 1..Len(scb.wq) : scb.wq[i].owner = t

InSuspendedSet(t) == T_IS_VALID_TCB(tcb, t) /\ tcb[t].state = T_STATE_SUSPENDED

\* C4: a task is in at most one of: a ready list, the wait list of an
\* object, the suspended set.
C4_AtMostOneList ==
    \A t \in Slots :
        /\ ~(InReadyList(t) /\ InWaitList(t))
        /\ ~(InReadyList(t) /\ InSuspendedSet(t))
        /\ ~(InWaitList(t) /\ InSuspendedSet(t))

(***************************************************************************)
(* Queue claims                                                            *)
(***************************************************************************)
IsPrefix(a, b) == Len(a) <= Len(b) /\ \A i \in 1..Len(a) : a[i] = b[i]

\* C7: when a q_send completes successfully while a receiver is parked in
\* q_receive (no NoWait, no timeout) on the empty queue, that q_receive
\* eventually returns 0 with the message sent.
C7_BlockedReceiveGetsMessage ==
    \A r \in Receivers :
        (owed[r] # 0) ~> (qthr[r].pc = "idle" /\ qthr[r].rc = "OK" /\ qthr[r].msg = owed[r])

\* C8: with one sender and no q_urgent, the messages received are, in
\* order, a prefix of the messages q_send accepted.
C8_ReceivedIsPrefixOfSent == (urg = <<>>) => IsPrefix(rcvd, sent)

\* C9: a queue created with capacity C accepts C messages before q_send
\* returns QFull: when q_send reports QFull and nothing has been received,
\* C messages have been accepted.
C9_HoldsCapacityMessages ==
    (snd.op = "q_send" /\ snd.rc = "ERR_QFULL" /\ rcvd = <<>> /\ urg = <<>>)
        => Len(sent) = qcb.count

\* C10: on a queue of capacity 4 holding M1, M2 (sent) and U1 (urgent), the
\* q_send of M3 is accepted.
C10_UrgentScenarioAcceptsM3 ==
    (qcb.count = 4 /\ sent = <<1, 2>> /\ urg = <<3>> /\ rcvd = <<>>)
        => ~(snd.op = "q_send" /\ snd.rc = "ERR_QFULL")

(***************************************************************************)
(* Event claims                                                            *)
(***************************************************************************)
\* The wake condition of event.h's EV_CHECK_ALL_CONDITION and
\* EV_CHECK_ANY_CONDITION, on the arguments of a call.
EvSatisfied(pending, events, flags) ==
    /\ events # {}
    /\ IF FlagSet(flags, EV_ANY) THEN pending \cap events # {}
       ELSE pending \cap events = events

\* C11: a task woken from a blocking ev_receive by ev_send receives exactly
\* the bits pending & waiting as they were evaluated at the wake.
C11_WokenReceiverGetsDueBits ==
    \A t \in EvTasks :
        (evthr[t].pc = "idle" /\ evthr[t].rc = "OK" /\ evthr[t].due # {})
            => evthr[t].out = evthr[t].due

\* C12: an ev_receive call made while the pending events of the block it
\* works on satisfy the requested condition returns 0 in that call, delivers
\* pending & mask and clears the delivered bits from pending, with or
\* without EV_NOWAIT.
C12_SatisfiedReceiveReturnsAtOnce ==
    [][\A t \in EvTasks :
          LET id == ev_get_current_task_id IN
          (/\ evthr[t].pc = "idle"
           /\ evthr'[t] # evthr[t]
           /\ EvSatisfied(ecb[id].pending_events, evthr'[t].events, evthr'[t].flags))
          => /\ evthr'[t].pc = "idle"
             /\ evthr'[t].rc = "OK"
             /\ evthr'[t].out = ecb[id].pending_events \cap evthr'[t].events
             /\ ecb'[id].pending_events = ecb[id].pending_events \ evthr'[t].out]_vars

\* C13: the bits sent to task t are the bits its own ev_receive observes:
\* once every ev_send has returned, task t is not left waiting in
\* ev_receive while the bits sent to t satisfy the condition it waits for.
C13_SentBitsReachAddressee ==
    \A t \in EvTasks :
        (evthr[t].pc = "ev_wait" /\ evs.pc = "idle")
            => ~EvSatisfied(ecb[t].pending_events, evthr[t].events, evthr[t].flags)

\* C14: a waiting ev_receive on 0x0F, with sends of 0x03 and 0x0C going on,
\* returns 0; under EV_ALL it returns 0x0F, under EV_ANY the bits of the
\* sends made so far.
C14_AllAnyScenario ==
    \A t \in EvTasks :
        (/\ evthr[t].pc = "idle"
         /\ evthr[t].rc # "none"
         /\ evthr[t].events = {0, 1, 2, 3}
         /\ ~FlagSet(evthr[t].flags, EV_NOWAIT))
        => /\ evthr[t].rc = "OK"
           /\ IF FlagSet(evthr[t].flags, EV_ANY)
              THEN evthr[t].out \in {{0, 1}, {2, 3}, {0, 1, 2, 3}}
              ELSE evthr[t].out = {0, 1, 2, 3}

(***************************************************************************)
(* Semaphore concurrency claim                                             *)
(***************************************************************************)
\* C15: concurrent sm_p and sm_v calls take effect atomically: no thread is
\* left blocked in sm_p (waiting on a host semaphore that is at 0) while the
\* semaphore's count is greater than 0.
C15_NoWaiterWhileCountPositive ==
    \A t \in Threads :
        thr[t].pc = "sm_wait" => (scb.posix > 0 \/ scb.current_count = 0)

C18_CancelledNeverFires ==
    \A i \in DOMAIN tm_fired, j \in DOMAIN tm_cancelled :
        tm_fired[i].id = tm_cancelled[j].id => tm_fired[i].at <= tm_cancelled[j].at

\* A periodic timer that had fired was cancelled, ticks at which it would
\* have fired again have passed, and the receiver has consumed the bit.
C18_Witness ==
    \E i \in DOMAIN tm_fired, j \in DOMAIN tm_cancelled :
        /\ tm_fired[i].id = tm_cancelled[j].id
        /\ tm_fired[i].type = TM_TYPE_PERIODIC
        /\ tick_count >= tm_cancelled[j].at + 2 * tm_fired[i].delay
        /\ ecb[0].pending_events = {}
        /\ \E t \in EvTasks : evthr[t].rc = "OK" /\ evthr[t].out = {0}

\* C19: a task that calls tm_wkafter(n) with n > 0 is blocked by the call.
C19_WkafterBlocksCaller ==
    [][\A c \in Threads :
          (IsRunning(c) /\ tm_next_id' # tm_next_id)
              => tcb'[c].state = T_STATE_SUSPENDED]_vars

\* C20: when sm_delete or q_delete is called on an object with blocked
\* waiters, every such waiter's sm_p or q_receive eventually returns, with
\* ERR_SKILLD for the semaphore and ERR_QKILLD for the queue.
C20_WaitersReturnDeleted ==
    /\ \A t \in Threads :
          (thr[t].pc = "sm_wait" /\ ~scb.active)
              ~> (thr[t].pc = "idle" /\ thr[t].rc = "ERR_SKILLD")
    /\ \A r \in Receivers :
          (qthr[r].pc = "q_wait" /\ ~qcb.active)
              ~> (qthr[r].pc = "idle" /\ qthr[r].rc = "ERR_QKILLD")

\* C21: a blocking sm_p with a timeout t > 0 on a semaphore whose count is
\* 0, with no sm_v during the wait, returns ERR_TIMEOUT and leaves the count
\* at 0 and no wait node of the caller in the wait list.
C21_TimedWaitTimesOut ==
    [][\A t \in Threads :
          (/\ thr[t].pc = "sm_wait" /\ thr[t].timeout > 0
           /\ scb.current_count = 0 /\ v_cnt = 0
           /\ thr'[t].pc = "idle")
              => /\ thr'[t].rc = "ERR_TIMEOUT"
                 /\ scb'.current_count = 0
                 /\ \A i \in 1..Len(scb'.wq) : scb'.wq[i].owner # t]_vars

\* C22: a waiting sm_p, q_receive or ev_receive issued with timeout 0 waits
\* without limit: it never returns ERR_TIMEOUT.
C22_ZeroTimeoutNeverTimesOut ==
    [][/\ \A t \in Threads :
             (thr[t].pc = "sm_wait" /\ thr[t].timeout = 0) => thr'[t].rc # "ERR_TIMEOUT"
       /\ \A r \in Receivers :
             (qthr[r].pc = "q_wait" /\ qthr[r].timeout = 0) => qthr'[r].rc # "ERR_TIMEOUT"
       /\ \A t \in EvTasks :
             (evthr[t].pc = "ev_wait" /\ evthr[t].timeout = 0)
                 => evthr'[t].rc # "ERR_TIMEOUT"]_vars

\* C23: a q_receive made without Q_NOWAIT never returns ERR_NOMSG (every
\* q_receive of SpecQueueWait is such a call).
C23_WaitingReceiveNeverNoMsg ==
    \A r \in Receivers : qthr[r].rc # "ERR_NOMSG"

\* The slots that hold the queued messages, from nextout up to nextin.
QueuedSlots(q) ==
    {i \in q.start..q.end :
        IF q.nextout <= q.nextin THEN q.nextout <= i /\ i < q.nextin
        ELSE i >= q.nextout \/ i < q.nextin}

\* C24: q_broadcast never stores its message in the queue: once the call
\* has returned no queued slot holds a broadcast message, and no q_receive
\* returns one.
C24_BroadcastNotStored ==
    LET B == {bcast.msgs[i] : i \in 1..Len(bcast.msgs)}
    IN  /\ \A i \in 1..Len(rcvd) : rcvd[i] \notin B
        /\ (snd.pc = "idle" /\ qcb.active)
               => \A i \in QueuedSlots(qcb) : qcb.buf[i] \notin B

\* C25: q_delete returns a queue's slots to the arena: q_create with
\* capacity C returns ERR_NOMGB if and only if C exceeds Q_MAX_BUFFERS minus
\* the total capacity of the live queues.  The model's q_create is called
\* when its one control block is free, so no queue is live at the call.
C25_ArenaReturnedByDelete ==
    LET live == 0
    IN  q_create_ret.rc \in {"OK", "ERR_NOMGB"}
           => (q_create_ret.rc = "ERR_NOMGB" <=> q_create_ret.count > Q_MAX_BUFFERS - live)

\* C26: when t_delete returns a task's TCB to the free pool, the task is in
\* no ready list, in no wait list, named by no active timer, and is not the
\* scheduler's current task.
C26_DeletedTaskUnreachable ==
    [][\A t \in Slots :
          (tcb[t].state # T_STATE_FREE /\ tcb'[t].state = T_STATE_FREE)
              => /\ current_task' # t
                 /\ ~InReadyList(t)'
                 /\ ~InWaitList(t)'
                 /\ \A i \in 1..Len(active_list') :
                        active_list'[i].task_id # tcb[t].task_id]_vars

\* C27: an idle task keeps the ready set from ever being empty: whenever
\* the running task stops running, the scheduler finds a ready task and
\* some task is running afterwards.
C27_SchedulerFindsReadyTask ==
    [][\A c \in Slots :
          (IsRunning(c) /\ ~IsRunning(c)')
              => (last_sel'.want # NULL /\ \E t \in Slots : IsRunning(t)')]_vars

\* The tasks in state Running.
RunningTasks == {t \in Slots : T_IS_VALID_TCB(tcb, t) /\ tcb[t].state = T_STATE_RUNNING}

\* C28: at most one task is in state Running, and a Running task is the
\* scheduler's current task; every other live task is in another state.
C28_OneRunningTask ==
    /\ Cardinality(RunningTasks) <= 1
    /\ \A t \in RunningTasks : current_task = t

\* A task was switched out for another one: the selected task is Running
\* and current, the other one is back in a ready list.
C28_Witness ==
    \E a, b \in Slots :
        /\ a # b
        /\ RunningTasks = {a} /\ current_task = a /\ last_sel.got = a
        /\ T_IS_VALID_TCB(tcb, b) /\ tcb[b].state = T_STATE_READY /\ InReadyList(b)

\* C29: a task that becomes ready is placed behind all tasks already ready
\* at its priority: it is the last of its ready list, nothing follows it.
C29_ReadyTaskGoesToTail ==
    [][\A t \in Slots :
          (/\ T_IS_VALID_TCB(tcb', t) /\ tcb'[t].state = T_STATE_READY
           /\ tcb[t].state # T_STATE_READY)
              => tcb'[t].next = NULL]_vars

\* C30: sm_v on a semaphore without waiters whose count is at the ceiling
\* returns 0 to the caller and leaves the count at the ceiling.
C30_SignalAtCeilingSucceeds ==
    [][(/\ scb.active /\ scb.wait_count = 0
        /\ scb.current_count = scb.maximum_count
        /\ sm_v_ret' # sm_v_ret)
           => /\ sm_v_ret' = "OK"
              /\ scb'.current_count = scb.maximum_count]_vars

\* C31: a semaphore's count stays between 0 and its ceiling, and the ceiling
\* is the default of 8 whatever the wait-ordering policy.
C31_CountWithinCeiling ==
    scb.active => /\ 0 <= scb.current_count
                  /\ scb.current_count <= scb.maximum_count
                  /\ scb.maximum_count = SM_DEFAULT_MAX

\* C32: the wait list of a Priority semaphore is sorted by the priorities of
\* the waiting tasks, numerically lowest first.
C32_WaitListInPriorityOrder ==
    (scb.active /\ scb.wait_mode = SM_PRIOR)
        => \A i, j \in 1..Len(scb.wq) :
              (/\ i < j
               /\ T_IS_VALID_TCB(tcb, scb.wq[i].owner)
               /\ T_IS_VALID_TCB(tcb, scb.wq[j].owner))
                  => tcb[scb.wq[i].owner].priority <= tcb[scb.wq[j].owner].priority

\* C33: a t_create call that fails after taking a pool slot gives the slot
\* back and leaves every task control block, every ready list and the
\* readiness bitmap as they were before the call.
C33_FailedCreateChangesNothing ==
    [][(next_id' # next_id /\ free_list' = free_list)
          => /\ tcb' = tcb
             /\ ready_lists' = ready_lists
             /\ ready_mask' = ready_mask]_vars

\* C34: t_mode stores the caller's previous mode in *old_mode and changes
\* exactly the masked bits: mode = (old & ~mask) | (new & mask) afterwards.
C34_ModeUpdatesMaskedBits ==
    [][(t_mode_ret' # t_mode_ret /\ t_mode_ret'.rc = "OK")
          => /\ t_mode_ret'.old_mode = tcb[current_task].mode
             /\ tcb'[current_task].mode =
                    BitOr(T_MODE_CLEAR(tcb[current_task].mode, t_mode_ret'.mask),
                          BitAnd(t_mode_ret'.new_mode, t_mode_ret'.mask))]_vars

\* C35: whenever a q_send, q_urgent or q_receive call has returned, the
\* ring's head index equals its tail index exactly when the queue's depth
\* is 0 or equals its capacity.
C35_HeadEqualsTailIffEmptyOrFull ==
    [][(/\ qcb'.active
        /\ \/ \E r \in Receivers : qthr'[r] # qthr[r] /\ qthr'[r].pc = "idle"
           \/ snd' # snd /\ snd'.pc = "idle")
          => (Q_BUFFER_EMPTY(qcb)'
                 <=> (qcb'.current_messages = 0 \/ qcb'.current_messages = qcb'.count))]_vars

\* C36: t_delete of a task that is in no ready list takes no other task out
\* of a ready list: a task that was ready in its list before the call and is
\* still ready after it is still in its list.
C36_DeleteLeavesReadyListsAlone ==
    [][\A t \in Slots :
          (/\ T_IS_VALID_TCB(tcb, t) /\ ~T_IS_VALID_TCB(tcb', t)
           /\ ~InReadyList(t))
              => \A u \in Slots \ {t} :
                    (/\ InReadyList(u)
                     /\ tcb[u].state = T_STATE_READY
                     /\ tcb'[u].state = T_STATE_READY)
                        => InReadyList(u)']_vars

\* C37: when ev_send finds the condition of a task satisfied that has begun
\* a blocking ev_receive, whether the task has only recorded its wait or is
\* already blocked, that ev_receive eventually returns 0.
C37_NoLostWakeup ==
    \A t \in EvTasks :
        (evthr[t].pc \in {"ev_recorded", "ev_wait"} /\ evs.pc = "signaled")
            ~> (evthr[t].pc = "idle" /\ evthr[t].rc = "OK")

\* C38: as long as t_start has not been called, no task is ready or running,
\* in a ready list, or the current task, whatever t_suspend, t_resume and
\* t_setpri calls are made.
C38_OnlyStartedTasksRun ==
    \A t \in Slots :
        /\ T_IS_VALID_TCB(tcb, t) => tcb[t].state \notin {T_STATE_READY, T_STATE_RUNNING}
        /\ ~InReadyList(t)
        /\ current_task # t

\* C39: the entries of a semaphore's wait list are those of the tasks blocked
\* in sm_p on it, one each: wait_count is their number, and a task that has
\* returned from sm_p has no entry left.
C39_WaitListHoldsBlockedTasks ==
    scb.active =>
        LET owners == {scb.wq[i].owner : i \in 1..Len(scb.wq)}
        IN  /\ scb.wait_count = Cardinality(owners)
            /\ \A t \in owners : thr[t].pc = "sm_wait"


=============================================================================
